---- MODULE Spec2Model ----
(***************************************************************************)
(* A model of the 2FA vault application: the credential vault kept in the  *)
(* OS secret store (core/secure_storage.py), the PIN gate                  *)
(* (core/app_lock.py), the encrypted backup and restore handlers           *)
(* (ui/settings_frame.py) and the lock/unlock session of the main window   *)
(* (main.py).                                                              *)
(*                                                                         *)
(* Python values.  A str is a sequence of characters, each written as a    *)
(* one-character string (the NUL character is written "NUL").  TLC cannot  *)
(* compare a sequence with a record, so Python's None has two spellings:   *)
(* None, where the other values are str, and Absent, where the other       *)
(* values are objects (records).                                           *)
(***************************************************************************)
EXTENDS Integers, Sequences, FiniteSets, TLC

VARIABLES
    store,      \* keyring service "2FA App": key (str) -> stored text
    last,       \* observation of the last vault call: name, arguments, outcome
    lock_store, \* keyring service "Python2FAApp_Lock": the stored salt and hash
    pin_set,    \* history: the PIN of the last set_app_pin call that succeeded
    pin_last,   \* observation of the last set_app_pin / verify_app_pin call
    pc,         \* where the process is: "stopped", "set_pin_dialog" (first-run
                \* PIN dialog open), "pin_dialog" (unlock prompt open),
                \* "starting" (show_app_window scheduled), "running" (main loop)
    window,     \* the main window: "withdrawn", "shown" or "destroyed"
    app_unlocked,               \* TwoFactorApp.app_unlocked
    pin_attempts,               \* TwoFactorApp.pin_attempts
    inactivity_timer_id,        \* TwoFactorApp.inactivity_timer_id: "None" or "after"
    auto_lock_after_seconds,    \* TwoFactorApp.auto_lock_after_seconds
    is_startup_check,           \* the argument of the running _prompt_for_pin_and_unlock
    lock_timers,    \* number of pending Tk callbacks that will call lock_application
    verifications,  \* history: verify_app_pin calls made by the current unlock run
    session_last,   \* the last event the session handled
    backup_file,    \* the file the last backup wrote, [exists |-> FALSE] before
    exported,       \* history: the password and the tokens of that backup
    token_cards,    \* TwoFactorApp.token_cards: identifier -> the card's
                    \* _current_token_val
    search_var,     \* the text of the search entry
    clipboard,      \* the system clipboard (pyperclip)
    clipboard_timers,   \* the threading.Timer threads started by copy_to_clipboard
                        \* that have not finished and were not cancelled
    refresh_timers, \* the cards whose after(1000, update_token) callback is pending
    card_last       \* the last step of a card or of one of its timer threads

vaultVars == <<store, last>>
pinVars == <<lock_store, pin_set, pin_last>>
sessionVars == <<pc, window, app_unlocked, pin_attempts, inactivity_timer_id,
                 auto_lock_after_seconds, is_startup_check, lock_timers,
                 verifications, session_last>>
backupVars == <<backup_file, exported>>
cardVars == <<token_cards, search_var, clipboard, clipboard_timers, refresh_timers,
              card_last>>
vars == <<vaultVars, pinVars, sessionVars, backupVars, cardVars>>

None == <<"None">>
Absent == [none |-> TRUE]

\* Python truthiness of a str-or-None value: `if x:`.
Truthy(x) == x # None /\ x # <<>>

-----------------------------------------------------------------------------
(* str methods used by the code *)

UpperCase == <<"A","B","C","D","E","F","G","H","I","J","K","L","M",
               "N","O","P","Q","R","S","T","U","V","W","X","Y","Z">>
LowerCase == <<"a","b","c","d","e","f","g","h","i","j","k","l","m",
               "n","o","p","q","r","s","t","u","v","w","x","y","z">>
Digits == <<"0","1","2","3","4","5","6","7","8","9">>

IndexIn(seq, c) == CHOOSE i \in 1..Len(seq) : seq[i] = c
Occurs(seq, c) == \E i \in 1..Len(seq) : seq[i] = c

\* str.lower() and str.upper() on ASCII text
str_lower(s) ==
    [i \in 1..Len(s) |->
        IF Occurs(UpperCase, s[i]) THEN LowerCase[IndexIn(UpperCase, s[i])] ELSE s[i]]
\* str_as_given is the comparison of a text without upper-casing it
str_as_given(s) == s
str_upper(s) ==
    [i \in 1..Len(s) |->
        IF Occurs(LowerCase, s[i]) THEN UpperCase[IndexIn(LowerCase, s[i])] ELSE s[i]]

\* s.replace(old, new) for one-character old and new
str_replace(s, old, new) == [i \in 1..Len(s) |-> IF s[i] = old THEN new ELSE s[i]]

\* str(n) for a natural number n: its decimal digits
RECURSIVE int_str(_)
int_str(n) == IF n < Len(Digits) THEN <<Digits[n + 1]>>
              ELSE int_str(n \div Len(Digits)) \o <<Digits[(n % Len(Digits)) + 1]>>

-----------------------------------------------------------------------------
(* Keys and literals of core/secure_storage.py *)

ACCOUNTS_LIST_KEY ==
    <<"_","_","a","c","c","o","u","n","t","s","_","l","i","s","t","_","_">>
TOTP == <<"T","O","T","P">>
HOTP == <<"H","O","T","P">>

\* the keys of a stored record, in the order save_token_secret writes them
K_account_name == <<"a","c","c","o","u","n","t","_","n","a","m","e">>
K_issuer_name == <<"i","s","s","u","e","r","_","n","a","m","e">>
K_secret_key == <<"s","e","c","r","e","t","_","k","e","y">>
K_type == <<"t","y","p","e">>
K_recovery_codes == <<"r","e","c","o","v","e","r","y","_","c","o","d","e","s">>

-----------------------------------------------------------------------------
(* json: a text is [json |-> value]; a value is a str, None (null),        *)
(* [list |-> sequence of values] or [dict |-> sequence of <<key, value>>]. *)
(* A text that is no JSON has no json field: json.loads raises on it.      *)

json_dumps(v) == [json |-> v]
IsJson(text) == "json" \in DOMAIN text
json_loads(text) == text.json

IsDict(v) == "dict" \in DOMAIN v
IsList(v) == "list" \in DOMAIN v

DictHas(d, k) == \E i \in 1..Len(d.dict) : d.dict[i][1] = k
\* dict.get(k, default)
DictGet(d, k, default) ==
    IF DictHas(d, k) THEN d.dict[CHOOSE i \in 1..Len(d.dict) : d.dict[i][1] = k][2]
    ELSE default
\* iterating a dict yields its keys in insertion order
DictKeys(d) == [i \in 1..Len(d.dict) |-> d.dict[i][1]]

-----------------------------------------------------------------------------
(* core/secure_storage.py *)

\* keyring.set_password / keyring.delete_password on the vault service
set_password(st, key, text) ==
    [k \in DOMAIN st \cup {key} |-> IF k = key THEN text ELSE st[k]]
delete_password(st, key) == [k \in DOMAIN st \ {key} |-> st[k]]

get_token_secret(st, identifier) ==
    IF identifier \notin DOMAIN st THEN Absent
    ELSE LET secret_json == st[identifier] IN
         IF ~IsJson(secret_json) THEN Absent           \* json.loads raises: caught
         ELSE LET data == json_loads(secret_json) IN
              IF ~IsDict(data) THEN Absent             \* data.get raises: caught
              ELSE [identifier |-> identifier,
                    account_name |-> DictGet(data, K_account_name, None),
                    issuer_name |-> DictGet(data, K_issuer_name, None),
                    secret_key |-> DictGet(data, K_secret_key, None),
                    type |-> DictGet(data, K_type, TOTP),
                    recovery_codes |-> DictGet(data, K_recovery_codes, <<>>)]

\* The value json.loads gives for the accounts list: whatever is stored under
\* ACCOUNTS_LIST_KEY (a list when the code wrote it as the index), else [].
get_all_token_identifiers(st) ==
    IF ACCOUNTS_LIST_KEY \notin DOMAIN st THEN [list |-> <<>>]
    ELSE IF ~IsJson(st[ACCOUNTS_LIST_KEY]) THEN [list |-> <<>>]
    ELSE json_loads(st[ACCOUNTS_LIST_KEY])

\* the elements a `for` loop over the returned value visits
Elements(accounts) == IF IsList(accounts) THEN accounts.list ELSE DictKeys(accounts)
\* `identifier in accounts`
Contains(accounts, identifier) ==
    \E i \in 1..Len(Elements(accounts)) : Elements(accounts)[i] = identifier

\* _add_account_to_list: the store afterwards, and whether it raised
\* (a dict has no append: AttributeError); add_account_to_list_in_front is
\* the variant that inserts a new identifier at the head of the list.
add_account_to_list_in_front(st, identifier) ==
    LET accounts == get_all_token_identifiers(st) IN
    IF Contains(accounts, identifier) THEN [st |-> st, raised |-> FALSE]
    ELSE IF ~IsList(accounts) THEN [st |-> st, raised |-> TRUE]
    ELSE [st |-> set_password(st, ACCOUNTS_LIST_KEY,
                     json_dumps([list |-> <<identifier>> \o accounts.list])),
          raised |-> FALSE]
add_account_to_list(st, identifier) ==
    LET accounts == get_all_token_identifiers(st) IN
    IF Contains(accounts, identifier) THEN [st |-> st, raised |-> FALSE]
    ELSE IF ~IsList(accounts) THEN [st |-> st, raised |-> TRUE]
    ELSE [st |-> set_password(st, ACCOUNTS_LIST_KEY,
                     json_dumps([list |-> Append(accounts.list, identifier)])),
          raised |-> FALSE]

\* list.remove(x): drops the first occurrence
list_remove(seq, x) ==
    LET i == CHOOSE j \in 1..Len(seq) :
                 seq[j] = x /\ \A k \in 1..(j - 1) : seq[k] # x
    IN SubSeq(seq, 1, i - 1) \o SubSeq(seq, i + 1, Len(seq))

\* _remove_account_from_list (a dict has no remove: AttributeError)
remove_account_from_list(st, identifier) ==
    LET accounts == get_all_token_identifiers(st) IN
    IF ~Contains(accounts, identifier) THEN [st |-> st, raised |-> FALSE]
    ELSE IF ~IsList(accounts) THEN [st |-> st, raised |-> TRUE]
    ELSE [st |-> set_password(st, ACCOUNTS_LIST_KEY,
                     json_dumps([list |-> list_remove(accounts.list, identifier)])),
          raised |-> FALSE]

\* the while loop of save_token_secret: the first of candidate, candidate_1,
\* candidate_2, ... for which get_token_secret returns None
RECURSIVE FirstUnused(_, _, _, _)
FirstUnused(st, current_identifier, temp_id, count) ==
    IF get_token_secret(st, temp_id) = Absent THEN temp_id
    ELSE FirstUnused(st, current_identifier,
                     current_identifier \o <<"_">> \o int_str(count), count + 1)

\* new_identifier: the identifier a save without identifier derives;
\* new_identifier_suffix_one is the variant without the loop, which appends _1
\* whenever the candidate is taken
new_identifier_suffix_one(st, account_name, issuer_name) ==
    LET current_identifier ==
            str_replace(str_lower(issuer_name), " ", "_") \o <<"_">>
                \o str_replace(str_lower(account_name), " ", "_")
    IN IF get_token_secret(st, current_identifier) = Absent THEN current_identifier
       ELSE current_identifier \o <<"_">> \o int_str(1)
new_identifier(st, account_name, issuer_name) ==
    LET current_identifier ==
            str_replace(str_lower(issuer_name), " ", "_") \o <<"_">>
                \o str_replace(str_lower(account_name), " ", "_")
    IN FirstUnused(st, current_identifier, current_identifier, 1)

\* save_token_secret: [st: the store afterwards, result: the identifier
\* returned or None, raised: "" or the exception that left the call]
save_token_secret(st, account_name, issuer_name, secret_key, token_type, identifier, recovery_codes) ==
    IF ~Truthy(account_name) \/ ~Truthy(secret_key) \/ ~Truthy(issuer_name)
    THEN [st |-> st, result |-> None, raised |-> "ValueError"]
    ELSE IF str_upper(token_type) \notin {TOTP, HOTP}
    THEN [st |-> st, result |-> None, raised |-> "ValueError"]
    ELSE
      LET current_identifier ==
              IF Truthy(identifier) THEN identifier
              ELSE new_identifier(st, account_name, issuer_name)
          data == [dict |-> << <<K_account_name, account_name>>,
                               <<K_issuer_name, issuer_name>>,
                               <<K_secret_key, secret_key>>,
                               <<K_type, token_type>>,
                               <<K_recovery_codes, recovery_codes>> >>]
          written == set_password(st, current_identifier, json_dumps(data))
          added == add_account_to_list(written, current_identifier)
      IN IF added.raised
         THEN [st |-> added.st, result |-> None, raised |-> "AttributeError"]
         ELSE [st |-> added.st, result |-> current_identifier, raised |-> ""]

\* save_token_secret when the keyring backend fails one of the two writes with
\* an error that is not NoKeyringError (failing_write is "record" for the
\* set_password of save_token_secret, "index" for the one of
\* _add_account_to_list; a failed write stores nothing). Both errors leave the
\* call through `except Exception: ... raise`; nothing is undone.
save_token_secret_keyring_error(st, account_name, issuer_name, secret_key, token_type, identifier, recovery_codes, failing_write) ==
    IF ~Truthy(account_name) \/ ~Truthy(secret_key) \/ ~Truthy(issuer_name)
    THEN [st |-> st, result |-> None, raised |-> "ValueError"]
    ELSE IF str_upper(token_type) \notin {TOTP, HOTP}
    THEN [st |-> st, result |-> None, raised |-> "ValueError"]
    ELSE
      LET current_identifier ==
              IF Truthy(identifier) THEN identifier
              ELSE new_identifier(st, account_name, issuer_name)
          data == [dict |-> << <<K_account_name, account_name>>,
                               <<K_issuer_name, issuer_name>>,
                               <<K_secret_key, secret_key>>,
                               <<K_type, token_type>>,
                               <<K_recovery_codes, recovery_codes>> >>]
          written == set_password(st, current_identifier, json_dumps(data))
          accounts == get_all_token_identifiers(written)
      IN IF failing_write = "record"
         THEN [st |-> st, result |-> None, raised |-> "KeyringError"]
         ELSE IF Contains(accounts, current_identifier)    \* no index write
         THEN [st |-> written, result |-> current_identifier, raised |-> ""]
         ELSE IF ~IsList(accounts)
         THEN [st |-> written, result |-> None, raised |-> "AttributeError"]
         ELSE [st |-> written, result |-> None, raised |-> "KeyringError"]

\* delete_token_secret: keyring.delete_password raises PasswordDeleteError when
\* nothing is stored under the key; the handler of that error calls
\* _remove_account_from_list outside the try, so what it raises leaves the call.
delete_token_secret(st, identifier) ==
    IF identifier \in DOMAIN st
    THEN [st |-> remove_account_from_list(delete_password(st, identifier), identifier).st,
          raised |-> ""]
    ELSE LET removed == remove_account_from_list(st, identifier)
         IN [st |-> removed.st,
             raised |-> IF removed.raised THEN "AttributeError" ELSE ""]

\* delete_token_secret when keyring.delete_password fails, deleting nothing:
\* with PasswordDeleteError the handler removes the identifier from the list;
\* any other error (KeyringLocked, an error of the platform's API) is caught
\* by `except Exception`, which prints it and returns.
delete_token_secret_keyring_error(st, identifier, error) ==
    IF error = "PasswordDeleteError"
    THEN LET removed == remove_account_from_list(st, identifier)
         IN [st |-> removed.st,
             raised |-> IF removed.raised THEN "AttributeError" ELSE ""]
    ELSE [st |-> st, raised |-> ""]

\* CollectData_stops_at_bad is the variant of the loop of get_all_token_data
\* that a record which does not load, or lacks a field, ends
RECURSIVE CollectData_stops_at_bad(_, _)
CollectData_stops_at_bad(st, identifiers) ==
    IF identifiers = <<>> THEN <<>>
    ELSE LET token_info == get_token_secret(st, Head(identifiers))
         IN IF token_info # Absent
               /\ Truthy(token_info.account_name)
               /\ Truthy(token_info.secret_key)
               /\ Truthy(token_info.issuer_name)
            THEN <<token_info>> \o CollectData_stops_at_bad(st, Tail(identifiers))
            ELSE <<>>

\* get_all_token_data: the indexed records that load and have their three
\* required fields, in index order
RECURSIVE CollectData(_, _)
CollectData(st, identifiers) ==
    IF identifiers = <<>> THEN <<>>
    ELSE LET token_info == get_token_secret(st, Head(identifiers))
             rest == CollectData(st, Tail(identifiers))
         IN IF token_info # Absent
               /\ Truthy(token_info.account_name)
               /\ Truthy(token_info.secret_key)
               /\ Truthy(token_info.issuer_name)
            THEN <<token_info>> \o rest
            ELSE rest
get_all_token_data(st) == CollectData(st, Elements(get_all_token_identifiers(st)))

-----------------------------------------------------------------------------
(* Inputs of the vault operations *)

MaxStored == 3          \* saves of a new key stop at this many stored texts

ACCOUNTS_LIST_TAIL == <<"a","c","c","o","u","n","t","s","_","l","i","s","t","_","_">>

\* issuer and account names a user can type into the add-token dialog
TokenNames == { [issuer_name |-> <<"A">>, account_name |-> <<"b"," ","C">>],
                [issuer_name |-> <<"_">>, account_name |-> ACCOUNTS_LIST_TAIL] }
TokenDetails == { [secret_key |-> <<"S","1">>, type |-> TOTP, recovery_codes |-> None],
                  [secret_key |-> <<"S","2">>, type |-> HOTP, recovery_codes |-> <<"r">>] }

\* identifiers a caller passes explicitly: those of stored records, and one
\* under which nothing is stored
FreshIdentifier == <<"x">>
RecordKeys(st) == {k \in DOMAIN st : k # ACCOUNTS_LIST_KEY}
ExplicitIdentifiers(st) == RecordKeys(st) \cup {FreshIdentifier}

-----------------------------------------------------------------------------
(* The vault operations as actions *)

InitVault == /\ store = <<>>
        /\ last = [op |-> "init", account_name |-> None, issuer_name |-> None,
                   identifier |-> None, result |-> None, raised |-> ""]

\* save_token_secret without identifier
SaveNew(n, d) ==
    LET r == save_token_secret(store, n.account_name, n.issuer_name, d.secret_key,
                               d.type, None, d.recovery_codes)
    IN /\ Cardinality(DOMAIN store) < MaxStored
       /\ store' = r.st
       /\ UNCHANGED <<pinVars, sessionVars, backupVars, cardVars>>
       /\ last' = [op |-> "save_new", account_name |-> n.account_name,
                   issuer_name |-> n.issuer_name, identifier |-> None,
                   result |-> r.result, raised |-> r.raised]

\* save_token_secret with an explicit identifier
SaveAs(identifier, n, d) ==
    LET r == save_token_secret(store, n.account_name, n.issuer_name, d.secret_key,
                               d.type, identifier, d.recovery_codes)
    IN /\ identifier \in DOMAIN store \/ Cardinality(DOMAIN store) < MaxStored
       /\ store' = r.st
       /\ UNCHANGED <<pinVars, sessionVars, backupVars, cardVars>>
       /\ last' = [op |-> "save_as", account_name |-> n.account_name,
                   issuer_name |-> n.issuer_name, identifier |-> identifier,
                   result |-> r.result, raised |-> r.raised]

Delete(identifier) ==
    LET r == delete_token_secret(store, identifier)
    IN /\ store' = r.st
       /\ UNCHANGED <<pinVars, sessionVars, backupVars, cardVars>>
       /\ last' = [op |-> "delete", account_name |-> None, issuer_name |-> None,
                   identifier |-> identifier, result |-> None, raised |-> r.raised]

\* errors of the keyring backend other than NoKeyringError
FailingWrites == {"record", "index"}
DeleteErrors == {"PasswordDeleteError", "KeyringLocked"}

\* save_token_secret without identifier, one of its writes failing
SaveNewKeyringError(n, d, failing_write) ==
    LET r == save_token_secret_keyring_error(store, n.account_name, n.issuer_name,
                 d.secret_key, d.type, None, d.recovery_codes, failing_write)
    IN /\ Cardinality(DOMAIN store) < MaxStored
       /\ store' = r.st
       /\ UNCHANGED <<pinVars, sessionVars, backupVars, cardVars>>
       /\ last' = [op |-> "save_new", account_name |-> n.account_name,
                   issuer_name |-> n.issuer_name, identifier |-> None,
                   result |-> r.result, raised |-> r.raised,
                   failing_write |-> failing_write]

\* delete_token_secret of a stored record, the backend's delete failing
DeleteKeyringError(identifier, error) ==
    LET r == delete_token_secret_keyring_error(store, identifier, error)
    IN /\ identifier \in RecordKeys(store)
       /\ store' = r.st
       /\ UNCHANGED <<pinVars, sessionVars, backupVars, cardVars>>
       /\ last' = [op |-> "delete", account_name |-> None, issuer_name |-> None,
                   identifier |-> identifier, result |-> None, raised |-> r.raised,
                   error |-> error]

NextVault ==
    \/ \E n \in TokenNames, d \in TokenDetails : SaveNew(n, d)
    \/ \E identifier \in ExplicitIdentifiers(store), n \in TokenNames, d \in TokenDetails :
           SaveAs(identifier, n, d)
    \/ \E identifier \in ExplicitIdentifiers(store) : Delete(identifier)

\* Arguments that callers other than the add-token dialog can pass (the
\* restore loop passes what the backup file holds): empty texts, a type in
\* lower case, a type that is no OTP type
XOTP == <<"X","O","T","P">>
EmptyNames == { [issuer_name |-> <<>>, account_name |-> <<"b"," ","C">>],
                [issuer_name |-> <<"A">>, account_name |-> <<>>] }
OtherDetails == { [secret_key |-> <<>>, type |-> TOTP, recovery_codes |-> None],
                  [secret_key |-> <<"S","1">>, type |-> str_lower(TOTP),
                   recovery_codes |-> None],
                  [secret_key |-> <<"S","1">>, type |-> XOTP, recovery_codes |-> None] }
CallNames == {n \in TokenNames : n.issuer_name = <<"A">>} \cup EmptyNames
CallDetails == {d \in TokenDetails : d.type = TOTP} \cup OtherDetails
CallIdentifiers(st) == {None} \cup ExplicitIdentifiers(st)

\* save_token_secret called with any of these arguments
SaveCall(identifier, n, d) ==
    LET r == save_token_secret(store, n.account_name, n.issuer_name, d.secret_key,
                               d.type, identifier, d.recovery_codes)
    IN /\ identifier \in DOMAIN store \/ Cardinality(DOMAIN store) < MaxStored
       /\ store' = r.st
       /\ UNCHANGED <<pinVars, sessionVars, backupVars, cardVars>>
       /\ last' = [op |-> "save", account_name |-> n.account_name,
                   issuer_name |-> n.issuer_name, secret_key |-> d.secret_key,
                   token_type |-> d.type, identifier |-> identifier,
                   result |-> r.result, raised |-> r.raised]

NextVaultCalls ==
    \/ \E identifier \in CallIdentifiers(store), n \in CallNames, d \in CallDetails :
           SaveCall(identifier, n, d)
    \/ \E identifier \in ExplicitIdentifiers(store) : Delete(identifier)

\* Saves that differ in the names only, up to MaxDerived stored texts, so that
\* a candidate identifier is taken several times over
MaxDerived == 4
DefaultDetails == CHOOSE d \in TokenDetails : d.type = TOTP
DefaultNames == CHOOSE n \in TokenNames : n.issuer_name = <<"A">>

\* save_token_secret without identifier, with these details
SaveDerived(n) ==
    LET r == save_token_secret(store, n.account_name, n.issuer_name,
                               DefaultDetails.secret_key, DefaultDetails.type, None,
                               DefaultDetails.recovery_codes)
    IN /\ Cardinality(DOMAIN store) < MaxDerived
       /\ store' = r.st
       /\ UNCHANGED <<pinVars, sessionVars, backupVars, cardVars>>
       /\ last' = [op |-> "save_new", account_name |-> n.account_name,
                   issuer_name |-> n.issuer_name, identifier |-> None,
                   result |-> r.result, raised |-> r.raised]

NextVaultNames ==
    \/ \E n \in TokenNames : SaveDerived(n)
    \/ \E identifier \in ExplicitIdentifiers(store) :
           SaveAs(identifier, DefaultNames, DefaultDetails)
    \/ \E identifier \in ExplicitIdentifiers(store) : Delete(identifier)

\* Texts another program can leave under a record's key in the keyring: one
\* that is no JSON, a JSON list, a record without secret_key
BlobKinds == {"unparsable", "list", "no_secret_key"}
corrupted_blob(kind) ==
    CASE kind = "unparsable" -> [raw |-> <<"{">>]
      [] kind = "list" -> json_dumps([list |-> <<>>])
      [] kind = "no_secret_key" ->
             json_dumps([dict |-> << <<K_account_name, <<"b">> >>,
                                     <<K_issuer_name, <<"A">> >> >>])

\* the text under a stored record's key is replaced outside the application
CorruptRecord(identifier, kind) ==
    /\ identifier \in RecordKeys(store)
    /\ store' = set_password(store, identifier, corrupted_blob(kind))
    /\ UNCHANGED <<pinVars, sessionVars, backupVars, cardVars>>
    /\ last' = [op |-> "corrupt", account_name |-> None, issuer_name |-> None,
                identifier |-> identifier, result |-> None, raised |-> ""]

NextVaultCorrupted ==
    \/ \E n \in TokenNames : SaveDerived(n)
    \/ \E identifier \in RecordKeys(store) : Delete(identifier)
    \/ \E identifier \in RecordKeys(store), kind \in BlobKinds :
           CorruptRecord(identifier, kind)

\* The two read functions with the keyring backend reachable or not: when it
\* is not, keyring.get_password raises NoKeyringError, whose handler prints a
\* message and returns None, respectively [].
get_token_secret_on(st, identifier, reachable) ==
    IF reachable THEN get_token_secret(st, identifier) ELSE Absent
get_all_token_identifiers_on(st, reachable) ==
    IF reachable THEN get_all_token_identifiers(st) ELSE [list |-> <<>>]

GetTokenSecret(identifier, reachable) ==
    /\ last' = [op |-> "get_token_secret", account_name |-> None,
                issuer_name |-> None, identifier |-> identifier,
                result |-> get_token_secret_on(store, identifier, reachable),
                raised |-> "", reachable |-> reachable]
    /\ UNCHANGED <<store, pinVars, sessionVars, backupVars, cardVars>>

GetAllTokenIdentifiers(reachable) ==
    /\ last' = [op |-> "get_all_token_identifiers", account_name |-> None,
                issuer_name |-> None, identifier |-> None,
                result |-> get_all_token_identifiers_on(store, reachable),
                raised |-> "", reachable |-> reachable]
    /\ UNCHANGED <<store, pinVars, sessionVars, backupVars, cardVars>>

NextVaultReads ==
    \/ \E n \in TokenNames : SaveDerived(n)
    \/ \E identifier \in RecordKeys(store) : Delete(identifier)
    \/ \E identifier \in ExplicitIdentifiers(store), reachable \in BOOLEAN :
           GetTokenSecret(identifier, reachable)
    \/ \E reachable \in BOOLEAN : GetAllTokenIdentifiers(reachable)

\* the vault operations on a backend whose calls can fail
NextVaultKeyringErrors ==
    \/ NextVault
    \/ \E n \in TokenNames, d \in TokenDetails, failing_write \in FailingWrites :
           SaveNewKeyringError(n, d, failing_write)
    \/ \E identifier \in RecordKeys(store), error \in DeleteErrors :
           DeleteKeyringError(identifier, error)

-----------------------------------------------------------------------------
(* core/app_lock.py *)

PBKDF2_ITERATIONS == 100000

\* str.encode('utf-8') of ASCII text: one byte per character
utf8_encode(s) == [utf8 |-> s]
utf8_decode(b) == b.utf8

\* bytes.hex() and bytes.fromhex(): a hex text is [hex |-> the bytes]
bytes_hex(b) == [hex |-> b]
bytes_fromhex(text) == text.hex

\* The key HMAC works with: a key of at most one block (64 bytes) is padded
\* with zero bytes to the block, so trailing NUL bytes of the key do not count.
\* (Every password of the model is shorter than a block.)
RECURSIVE hmac_key(_)
hmac_key(key) == IF key # <<>> /\ key[Len(key)] = "NUL"
                 THEN hmac_key(SubSeq(key, 1, Len(key) - 1))
                 ELSE key

\* hashlib.pbkdf2_hmac('sha256', password, salt, iterations): a digest that is
\* determined by, and determines, the HMAC key, the salt and the iterations
pbkdf2_hmac(password, salt, iterations) ==
    [key |-> hmac_key(password.utf8), salt |-> salt, iterations |-> iterations]

\* _hash_pin; hash_pin_first_four is the variant that hashes only the first
\* four characters, against which the round trip is tested
hash_pin_first_four(pin, salt) ==
    pbkdf2_hmac(utf8_encode(SubSeq(pin, 1, IF Len(pin) < 4 THEN Len(pin) ELSE 4)),
                salt, PBKDF2_ITERATIONS)
hash_pin(pin, salt) == pbkdf2_hmac(utf8_encode(pin), salt, PBKDF2_ITERATIONS)

\* set_app_pin when the keyring fails one of its two writes (failing_write is
\* "salt" or "hash"; a failed write stores nothing): the error is printed and
\* raised again, and a salt already written stays.
set_app_pin_keyring_error(ls, pin, salt, failing_write) ==
    IF Len(pin) < 4 THEN [ls |-> ls, raised |-> "ValueError"]
    ELSE IF failing_write = "salt" THEN [ls |-> ls, raised |-> "KeyringError"]
    ELSE [ls |-> [app_pin_salt |-> bytes_hex(salt), app_pin_hash |-> ls.app_pin_hash],
          raised |-> "KeyringError"]

\* set_app_pin with the salt os.urandom drew: the lock store afterwards and
\* what the call raised; set_app_pin_min_three is the variant that accepts a
\* PIN of three characters
set_app_pin_min_three(ls, pin, salt) ==
    IF Len(pin) < 3 THEN [ls |-> ls, raised |-> "ValueError"]
    ELSE [ls |-> [app_pin_salt |-> bytes_hex(salt),
                  app_pin_hash |-> bytes_hex(hash_pin(pin, salt))],
          raised |-> ""]
set_app_pin(ls, pin, salt) ==
    IF Len(pin) < 4 THEN [ls |-> ls, raised |-> "ValueError"]
    ELSE [ls |-> [app_pin_salt |-> bytes_hex(salt),
                  app_pin_hash |-> bytes_hex(hash_pin(pin, salt))],
          raised |-> ""]

\* verify_app_pin; verify_app_pin_any_pin is the variant that accepts every
\* PIN once one is stored
verify_app_pin_any_pin(ls, pin) ==
    ~(ls.app_pin_salt = Absent \/ ls.app_pin_hash = Absent)
verify_app_pin(ls, pin) ==
    IF ls.app_pin_salt = Absent \/ ls.app_pin_hash = Absent THEN FALSE
    ELSE hash_pin(pin, bytes_fromhex(ls.app_pin_salt)) = bytes_fromhex(ls.app_pin_hash)

is_pin_set(ls) == ls.app_pin_salt # Absent /\ ls.app_pin_hash # Absent

\* PINs passed to the two functions, and the salts os.urandom draws
PinInputs == { <<"1","2","3">>, <<"1","2","3","4">>, <<"1","2","3","5">>,
               <<"1","2","3","4","NUL">>, <<"1","2","3","4","5">>, <<>> }
Salts == {"salt1", "salt2", "salt3"}

InitPin == /\ lock_store = [app_pin_salt |-> Absent, app_pin_hash |-> Absent]
           /\ pin_set = None
           /\ pin_last = [op |-> "init", pin |-> None, result |-> FALSE, raised |-> ""]

SetPin(pin, salt) ==
    LET r == set_app_pin(lock_store, pin, salt)
    IN /\ lock_store' = r.ls
       /\ pin_set' = IF r.raised = "" THEN pin ELSE pin_set
       /\ pin_last' = [op |-> "set", pin |-> pin, result |-> FALSE, raised |-> r.raised]
       /\ UNCHANGED <<vaultVars, sessionVars, backupVars, cardVars>>

VerifyPin(pin) ==
    /\ pin_last' = [op |-> "verify", pin |-> pin,
                    result |-> verify_app_pin(lock_store, pin), raised |-> ""]
    /\ UNCHANGED <<lock_store, pin_set, vaultVars, sessionVars, backupVars, cardVars>>

NextPin ==
    \/ \E pin \in PinInputs, salt \in Salts : SetPin(pin, salt)
    \/ \E pin \in PinInputs : VerifyPin(pin)

\* set_app_pin on a keyring that fails one of the two writes
PinFailingWrites == {"salt", "hash"}
SetPinKeyringError(pin, salt, failing_write) ==
    LET r == set_app_pin_keyring_error(lock_store, pin, salt, failing_write)
    IN /\ lock_store' = r.ls
       /\ pin_set' = pin_set
       /\ pin_last' = [op |-> "set", pin |-> pin, result |-> FALSE,
                       raised |-> r.raised, failing_write |-> failing_write]
       /\ UNCHANGED <<vaultVars, sessionVars, backupVars, cardVars>>

NextPinKeyringErrors ==
    \/ NextPin
    \/ \E pin \in PinInputs, salt \in Salts, failing_write \in PinFailingWrites :
           SetPinKeyringError(pin, salt, failing_write)

-----------------------------------------------------------------------------
(* The auto-lock setting of core/secure_storage.py *)

AUTO_LOCK_SETTING_KEY ==
    <<"_","_","a","u","t","o","_","l","o","c","k","_","t","i","m","e","o","u","t",
      "_","s","e","c","o","n","d","s","_","_">>
DEFAULT_AUTO_LOCK_SECONDS == 300

\* get_auto_lock_setting: int(text) succeeds on the text of an integer
\* (str(n) is [json |-> [int |-> n]]); on any other text it raises, which is
\* caught, and the default is returned
get_auto_lock_setting(st) ==
    IF AUTO_LOCK_SETTING_KEY \notin DOMAIN st THEN DEFAULT_AUTO_LOCK_SECONDS
    ELSE LET timeout_str == st[AUTO_LOCK_SETTING_KEY] IN
         IF IsJson(timeout_str) /\ "int" \in DOMAIN json_loads(timeout_str)
         THEN json_loads(timeout_str).int
         ELSE DEFAULT_AUTO_LOCK_SECONDS

\* save_auto_lock_setting: stores str(timeout_seconds), the text of an integer
save_auto_lock_setting(st, timeout_seconds) ==
    set_password(st, AUTO_LOCK_SETTING_KEY, [json |-> [int |-> timeout_seconds]])

\* the names from which a save without identifier derives the key of the
\* auto-lock setting, beside ordinary ones
AUTO_LOCK_SETTING_TAIL == SubSeq(AUTO_LOCK_SETTING_KEY, 3, Len(AUTO_LOCK_SETTING_KEY))
SettingNames == { [issuer_name |-> <<"A">>, account_name |-> <<"b"," ","C">>],
                  [issuer_name |-> <<"_">>, account_name |-> AUTO_LOCK_SETTING_TAIL] }
SettingTimeouts == {0, 60}

\* save_auto_lock_setting called with one of the menu's values
SaveAutoLockSetting(timeout_seconds) ==
    /\ store' = save_auto_lock_setting(store, timeout_seconds)
    /\ last' = [op |-> "save_setting", account_name |-> None, issuer_name |-> None,
                identifier |-> None, result |-> None, raised |-> "",
                timeout_seconds |-> timeout_seconds]
    /\ UNCHANGED <<pinVars, sessionVars, backupVars, cardVars>>

\* the token operations and the setting on one vault
NextVaultSettings ==
    \/ \E n \in SettingNames : SaveDerived(n)
    \/ \E identifier \in {k \in DOMAIN store :
                             Contains(get_all_token_identifiers(store), k)} :
           Delete(identifier)
    \/ \E timeout_seconds \in SettingTimeouts : SaveAutoLockSetting(timeout_seconds)

-----------------------------------------------------------------------------
(* ui/token_card.py and the token list of main.py *)

\* pyotp: the secret is base32 text (base64.b32decode with casefold, padded
\* with "=" to a multiple of 8); a text that does not decode makes now() raise
Base32Digits == <<"2","3","4","5","6","7">>
is_base32(secret_key) ==
    /\ secret_key # None
    /\ \A i \in 1..Len(secret_key) :
          Occurs(UpperCase, str_upper(secret_key)[i]) \/ Occurs(Base32Digits, secret_key[i])
    /\ Len(secret_key) % 8 \in {0, 2, 4, 5, 7}
\* TOTP.now() within one period of the clock: a text that depends on the secret
totp_now(secret_key) == <<"o","t","p">> \o str_upper(secret_key)

\* TokenCard.__init__ with update_token: the card's _current_token_val; when
\* now() raises, update_token prints the error, the value stays "" and no
\* refresh is scheduled
new_card_token_val(secret_key) ==
    IF is_base32(secret_key) THEN totp_now(secret_key) ELSE <<>>

\* `sub in s` on str
str_in(sub, s) ==
    \E k \in 0..(Len(s) - Len(sub)) : SubSeq(s, k + 1, k + Len(sub)) = sub

\* The loop of load_and_display_tokens from the i-th identifier on: the cards
\* created, identifier -> _current_token_val. A record whose issuer_name or
\* account_name is null makes .lower() raise, which ends the loop (the handler
\* of the whole body keeps the cards created so far).
RECURSIVE CreateCards(_, _, _, _, _)
CreateCards(st, search_term, identifiers, i, cards) ==
    IF i > Len(identifiers) THEN cards
    ELSE LET identifier == identifiers[i]
             token_data == get_token_secret(st, identifier)
         IN IF token_data = Absent
            THEN CreateCards(st, search_term, identifiers, i + 1, cards)
            ELSE IF token_data.issuer_name = None \/ token_data.account_name = None
            THEN cards
            ELSE IF str_in(search_term, str_lower(token_data.issuer_name))
                    \/ str_in(search_term, str_lower(token_data.account_name))
            THEN CreateCards(st, search_term, identifiers, i + 1,
                     [k \in DOMAIN cards \cup {identifier} |->
                         IF k = identifier
                         THEN new_card_token_val(token_data.secret_key)
                         ELSE cards[k]])
            ELSE CreateCards(st, search_term, identifiers, i + 1, cards)

\* load_and_display_tokens: every card is destroyed and the dict cleared, then
\* the cards of the listed records that match the search text are created.
\* Destroying a card (Misc.destroy) deletes the Tcl command of its pending
\* after(1000, update_token), so that callback cannot run any more; nothing
\* cancels the card's clipboard_clear_timer, whose thread goes on.
\*   cards: the new token_cards; timers: the clipboard timers afterwards;
\*   refresh: the cards with a pending update_token
load_and_display_tokens(st, search_text, timers) ==
    LET cards == CreateCards(st, str_lower(search_text),
                             Elements(get_all_token_identifiers(st)), 1, <<>>)
    IN [cards |-> cards,
        timers |-> {[t EXCEPT !.destroyed = TRUE, !.current = FALSE] : t \in timers},
        refresh |-> {k \in DOMAIN cards : cards[k] # <<>>}]

\* Tk.destroy() of the main window: every widget is destroyed and the Tcl
\* interpreter deleted, with it every pending `after` callback; the threads of
\* the clipboard timers are not Tk's and go on
destroy_window ==
    /\ token_cards' = <<>>
    /\ refresh_timers' = {}
    /\ clipboard_timers' = {[t EXCEPT !.destroyed = TRUE, !.current = FALSE] :
                               t \in clipboard_timers}
    /\ UNCHANGED <<search_var, clipboard, card_last>>

-----------------------------------------------------------------------------
(* main.py: the session of TwoFactorApp *)

MAX_PIN_ATTEMPTS == 3

\* what PinDialog.get_pin returns besides None: _ok_event accepts a PIN of at
\* least 4 characters only
DialogPins == {pin \in PinInputs : Len(pin) >= 4}

\* reset_inactivity_timer: the timer id and the number of pending lock
\* callbacks afterwards, with the delay in milliseconds of the callback it
\* scheduled (0 if it scheduled none); reset_inactivity_timer_cancel_only is
\* the variant that cancels a pending countdown without starting a new one,
\* reset_inactivity_timer_ignores_lock the one that does not test app_unlocked,
\* reset_inactivity_timer_without_cancel the one that schedules a countdown
\* without cancelling the pending one
reset_inactivity_timer_ignores_lock(timer_id, timers, unlocked, timeout) ==
    LET cancelled == IF timer_id # "None" THEN timers - 1 ELSE timers
    IN IF timeout > 0
       THEN [id |-> "after", timers |-> cancelled + 1, ms |-> timeout * 1000]
       ELSE [id |-> "None", timers |-> cancelled, ms |-> 0]
reset_inactivity_timer_cancel_only(timer_id, timers, unlocked, timeout) ==
    IF timer_id # "None" THEN [id |-> "None", timers |-> timers - 1, ms |-> 0]
    ELSE IF unlocked /\ timeout > 0
         THEN [id |-> "after", timers |-> timers + 1, ms |-> timeout * 1000]
         ELSE [id |-> "None", timers |-> timers, ms |-> 0]
reset_inactivity_timer_without_cancel(timer_id, timers, unlocked, timeout) ==
    LET cancelled == IF timer_id # "None" THEN timers - 1 ELSE timers
    IN IF unlocked /\ timeout > 0
       THEN [id |-> "after", timers |-> timers + 1, ms |-> timeout * 1000]
       ELSE [id |-> "None", timers |-> cancelled, ms |-> 0]
reset_inactivity_timer(timer_id, timers, unlocked, timeout) ==
    LET cancelled == IF timer_id # "None" THEN timers - 1 ELSE timers
    IN IF unlocked /\ timeout > 0
       THEN [id |-> "after", timers |-> cancelled + 1, ms |-> timeout * 1000]
       ELSE [id |-> "None", timers |-> cancelled, ms |-> 0]

InitSession ==
    /\ pc = "stopped"
    /\ window = "destroyed"
    /\ app_unlocked = FALSE
    /\ pin_attempts = 0
    /\ inactivity_timer_id = "None"
    /\ auto_lock_after_seconds = DEFAULT_AUTO_LOCK_SECONDS
    /\ is_startup_check = TRUE
    /\ lock_timers = 0
    /\ verifications = 0
    /\ session_last = [ev |-> "none", startup |-> TRUE]

\* TwoFactorApp.__init__ up to the first dialog of _handle_initial_pin_check,
\* in a new process: no card, no timer thread; the clipboard is the system's
Launch ==
    /\ pc = "stopped"
    /\ window' = "withdrawn"
    /\ app_unlocked' = FALSE
    /\ pin_attempts' = 0
    /\ inactivity_timer_id' = "None"
    /\ lock_timers' = 0
    /\ auto_lock_after_seconds' = get_auto_lock_setting(store)
    /\ is_startup_check' = TRUE
    /\ verifications' = 0
    /\ pc' = IF is_pin_set(lock_store) THEN "pin_dialog" ELSE "set_pin_dialog"
    /\ session_last' = [ev |-> "launch", startup |-> TRUE]
    /\ token_cards' = <<>>
    /\ search_var' = <<>>
    /\ clipboard_timers' = {}
    /\ refresh_timers' = {}
    /\ UNCHANGED <<vaultVars, pinVars, backupVars, clipboard, card_last>>

\* is_pin_set with the keyring backend reachable or not: when
\* keyring.get_password raises, either handler returns False
is_pin_set_on(ls, reachable) == IF reachable THEN is_pin_set(ls) ELSE FALSE

\* TwoFactorApp.__init__ up to the first dialog when the reads of the keyring
\* raise: get_auto_lock_setting returns the default, is_pin_set returns False
LaunchKeyringError ==
    /\ pc = "stopped"
    /\ window' = "withdrawn"
    /\ app_unlocked' = FALSE
    /\ pin_attempts' = 0
    /\ inactivity_timer_id' = "None"
    /\ lock_timers' = 0
    /\ auto_lock_after_seconds' = DEFAULT_AUTO_LOCK_SECONDS
    /\ is_startup_check' = TRUE
    /\ verifications' = 0
    /\ pc' = IF is_pin_set_on(lock_store, FALSE) THEN "pin_dialog" ELSE "set_pin_dialog"
    /\ session_last' = [ev |-> "launch", startup |-> TRUE, reachable |-> FALSE]
    /\ token_cards' = <<>>
    /\ search_var' = <<>>
    /\ clipboard_timers' = {}
    /\ refresh_timers' = {}
    /\ UNCHANGED <<vaultVars, pinVars, backupVars, clipboard, card_last>>

\* _handle_initial_pin_check, first run: the dialog returned a PIN
FirstRunPinEntered(pin, salt) ==
    LET r == set_app_pin(lock_store, pin, salt)
    IN /\ pc = "set_pin_dialog"
       /\ lock_store' = r.ls
       /\ pin_set' = IF r.raised = "" THEN pin ELSE pin_set
       /\ pin_last' = [op |-> "set", pin |-> pin, result |-> FALSE, raised |-> r.raised]
       /\ app_unlocked' = (r.raised = "")
       /\ pc' = IF r.raised = "" THEN "starting" ELSE "stopped"
       /\ window' = IF r.raised = "" THEN window ELSE "destroyed"
       /\ session_last' = [ev |-> "first_pin", startup |-> TRUE]
       /\ UNCHANGED <<backupVars, cardVars, vaultVars, pin_attempts, inactivity_timer_id,
                      auto_lock_after_seconds, is_startup_check, lock_timers,
                      verifications>>

\* quit_application_if_pin_cancelled: destroy the window and sys.exit(1);
\* quit_without_exit is the variant that destroys the window and returns
quit_without_exit ==
    /\ window' = "destroyed"
    /\ pc' = pc
    /\ destroy_window
quit_application_if_pin_cancelled ==
    /\ window' = "destroyed"
    /\ pc' = "stopped"
    /\ destroy_window

\* _handle_initial_pin_check, first run: the dialog was closed without a PIN
FirstRunPinClosed ==
    /\ pc = "set_pin_dialog"
    /\ quit_application_if_pin_cancelled
    /\ session_last' = [ev |-> "first_pin_closed", startup |-> TRUE]
    /\ UNCHANGED <<backupVars, vaultVars, pinVars, app_unlocked, pin_attempts,
                   inactivity_timer_id, auto_lock_after_seconds, is_startup_check,
                   lock_timers, verifications>>

\* show_app_window, scheduled by __init__ after a successful initial check
ShowAppWindow ==
    LET timeout == get_auto_lock_setting(store)
        t == reset_inactivity_timer(inactivity_timer_id, lock_timers,
                                    app_unlocked, timeout)
        shown == load_and_display_tokens(store, search_var, clipboard_timers)
    IN /\ pc = "starting"
       /\ auto_lock_after_seconds' = timeout
       /\ window' = "shown"
       /\ inactivity_timer_id' = t.id
       /\ lock_timers' = t.timers
       /\ pc' = "running"
       /\ session_last' = [ev |-> "show_app_window", startup |-> TRUE]
       /\ token_cards' = shown.cards
       /\ clipboard_timers' = shown.timers
       /\ refresh_timers' = shown.refresh
       /\ UNCHANGED <<search_var, clipboard, card_last>>
       /\ UNCHANGED <<backupVars, vaultVars, pinVars, app_unlocked, pin_attempts,
                      is_startup_check, verifications>>

\* the loop condition of _prompt_for_pin_and_unlock; prompt_again_one_more is
\* the off-by-one variant, against which the attempt cap is tested
prompt_again_one_more(attempts) == attempts <= MAX_PIN_ATTEMPTS
prompt_again(attempts) == attempts < MAX_PIN_ATTEMPTS

\* the two `pin is None` branches of _prompt_for_pin_and_unlock: both quit;
\* pin_is_none_relock_returns is the variant in which the re-lock branch only
\* returns False, leaving the main loop running with the window withdrawn
pin_is_none_relock_returns(startup) ==
    IF startup THEN quit_application_if_pin_cancelled
    ELSE pc' = "running" /\ window' = window /\ UNCHANGED cardVars
pin_is_none(startup) == quit_application_if_pin_cancelled

\* One turn of the loop of _prompt_for_pin_and_unlock in which the dialog
\* returned a PIN, with what follows the loop when it ends: on success the
\* caller's continuation (lock_application shows the window and restarts the
\* timer; __init__ schedules show_app_window), on the last failure the exit.
PinEntered(pin) ==
    LET ok == verify_app_pin(lock_store, pin)
        t == reset_inactivity_timer(inactivity_timer_id, lock_timers, TRUE,
                                    auto_lock_after_seconds)
        shown == load_and_display_tokens(store, search_var, clipboard_timers)
    IN /\ pc = "pin_dialog"
       /\ pin_last' = [op |-> "verify", pin |-> pin, result |-> ok, raised |-> ""]
       /\ verifications' = verifications + 1
       /\ IF ok
          THEN /\ app_unlocked' = TRUE
               /\ pin_attempts' = pin_attempts
               /\ IF is_startup_check
                  THEN /\ pc' = "starting"
                       /\ UNCHANGED <<window, inactivity_timer_id, lock_timers>>
                       /\ UNCHANGED cardVars
                  ELSE /\ pc' = "running"
                       /\ window' = "shown"
                       /\ inactivity_timer_id' = t.id
                       /\ lock_timers' = t.timers
                       /\ token_cards' = shown.cards
                       /\ clipboard_timers' = shown.timers
                       /\ refresh_timers' = shown.refresh
                       /\ UNCHANGED <<search_var, clipboard, card_last>>
          ELSE /\ pin_attempts' = pin_attempts + 1
               /\ IF prompt_again(pin_attempts + 1)
                  THEN UNCHANGED <<pc, window, cardVars>>
                  ELSE quit_application_if_pin_cancelled
               /\ UNCHANGED <<app_unlocked, inactivity_timer_id, lock_timers>>
       /\ session_last' = [ev |-> IF ok THEN "pin_ok" ELSE "pin_bad",
                           startup |-> is_startup_check]
       /\ UNCHANGED <<backupVars, vaultVars, lock_store, pin_set, auto_lock_after_seconds,
                      is_startup_check>>

\* The dialog of _prompt_for_pin_and_unlock returned None (Cancel, or the
\* window's close button): both branches call quit_application_if_pin_cancelled.
PinCancelled ==
    /\ pc = "pin_dialog"
    /\ pin_is_none(is_startup_check)
    /\ session_last' = [ev |-> "pin_cancel", startup |-> is_startup_check]
    /\ UNCHANGED <<backupVars, vaultVars, pinVars, app_unlocked, pin_attempts,
                   inactivity_timer_id, auto_lock_after_seconds, is_startup_check,
                   lock_timers, verifications>>

\* lock_application up to the first dialog of _prompt_for_pin_and_unlock;
\* `fired` says that the pending lock callback is the caller (it is then no
\* longer pending, and after_cancel of its id does nothing)
\* lock_application_flag_only is the variant that cancels the timer and clears
\* app_unlocked without withdrawing the window or asking for the PIN
lock_application_flag_only(fired, ev) ==
    /\ lock_timers' = IF fired \/ inactivity_timer_id # "None"
                      THEN lock_timers - 1 ELSE lock_timers
    /\ inactivity_timer_id' = "None"
    /\ app_unlocked' = FALSE
    /\ session_last' = [ev |-> ev, startup |-> is_startup_check,
                        attempts_before |-> pin_attempts]
    /\ UNCHANGED <<backupVars, cardVars, vaultVars, pinVars, auto_lock_after_seconds,
                   window, pin_attempts, verifications, is_startup_check, pc>>
\* lock_application_keeps_attempts is the variant whose unlock protocol goes
\* on counting from the failed attempts of the run before
\* session_last records the count the run before ended with
lock_application_keeps_attempts(fired, ev) ==
    /\ lock_timers' = IF fired \/ inactivity_timer_id # "None"
                      THEN lock_timers - 1 ELSE lock_timers
    /\ inactivity_timer_id' = "None"
    /\ app_unlocked' = FALSE
    /\ window' = "withdrawn"
    /\ pin_attempts' = pin_attempts
    /\ verifications' = 0
    /\ is_startup_check' = FALSE
    /\ pc' = "pin_dialog"
    /\ session_last' = [ev |-> ev, startup |-> FALSE,
                        attempts_before |-> pin_attempts]
    /\ UNCHANGED <<backupVars, cardVars, vaultVars, pinVars, auto_lock_after_seconds>>
lock_application(fired, ev) ==
    /\ lock_timers' = IF fired \/ inactivity_timer_id # "None"
                      THEN lock_timers - 1 ELSE lock_timers
    /\ inactivity_timer_id' = "None"
    /\ app_unlocked' = FALSE
    /\ window' = "withdrawn"
    /\ pin_attempts' = 0
    /\ verifications' = 0
    /\ is_startup_check' = FALSE
    /\ pc' = "pin_dialog"
    /\ session_last' = [ev |-> ev, startup |-> FALSE,
                        attempts_before |-> pin_attempts]
    /\ UNCHANGED <<backupVars, cardVars, vaultVars, pinVars, auto_lock_after_seconds>>

\* the sidebar's Lock App button
LockButton ==
    /\ pc = "running"
    /\ window = "shown"
    /\ lock_application(FALSE, "lock_button")

\* the inactivity timer expires
InactivityTimeout ==
    /\ pc = "running"
    /\ lock_timers > 0
    /\ lock_application(TRUE, "timeout")

\* <Motion>, <KeyPress> or <Button-1> on any window of the application (the
\* bindings are made at the end of __init__, after the initial check)
activity_bound ==
    IF pc = "pin_dialog" THEN ~is_startup_check
    ELSE pc = "running" /\ window = "shown"

Activity ==
    LET t == reset_inactivity_timer(inactivity_timer_id, lock_timers,
                                    app_unlocked, auto_lock_after_seconds)
    IN /\ activity_bound
       /\ inactivity_timer_id' = t.id
       /\ lock_timers' = t.timers
       /\ session_last' = [ev |-> "activity", startup |-> is_startup_check,
                           pending_before |-> lock_timers,
                           scheduled_ms |-> t.ms]
       /\ UNCHANGED <<backupVars, cardVars, vaultVars, pinVars, pc, window, app_unlocked, pin_attempts,
                      auto_lock_after_seconds, is_startup_check, verifications>>

\* the seconds of SettingsFrame.auto_lock_options ("Disabled" is 0)
auto_lock_options == {0, 60, 300, 900, 1800, 3600}

\* update_auto_lock_and_reset_timer: the timeout, the timer id and the number
\* of pending lock callbacks afterwards; update_auto_lock_only is the variant
\* that stores the new timeout without resetting the timer
update_auto_lock_only(st, timer_id, timers, unlocked) ==
    [timeout |-> get_auto_lock_setting(st), id |-> timer_id, timers |-> timers]
update_auto_lock_and_reset_timer(st, timer_id, timers, unlocked) ==
    LET new_timeout == get_auto_lock_setting(st)
        t == reset_inactivity_timer(timer_id, timers, unlocked, new_timeout)
    IN [timeout |-> new_timeout, id |-> t.id, timers |-> t.timers]

\* SettingsFrame._on_auto_lock_change: an entry of the Timeout menu is chosen
OnAutoLockChange(timeout_seconds) ==
    LET st == save_auto_lock_setting(store, timeout_seconds)
        u == update_auto_lock_and_reset_timer(st, inactivity_timer_id,
                                              lock_timers, app_unlocked)
    IN /\ pc = "running"
       /\ window = "shown"
       /\ store' = st
       /\ auto_lock_after_seconds' = u.timeout
       /\ inactivity_timer_id' = u.id
       /\ lock_timers' = u.timers
       /\ session_last' = [ev |-> "auto_lock_change", startup |-> is_startup_check,
                           pending_before |-> lock_timers,
                           timeout_before |-> auto_lock_after_seconds]
       /\ UNCHANGED <<backupVars, cardVars, pinVars, last, pc, window, app_unlocked,
                      pin_attempts, is_startup_check, verifications>>

\* the names the sidebar's Home and Settings buttons pass
FrameNames == {"Home", "Settings"}

\* _show_frame_callback: the Home or Settings button of the sidebar; the frame
\* is switched only when app_unlocked, and show_home_frame reloads the cards
ShowFrame(frame_class_name) ==
    LET shown == load_and_display_tokens(store, search_var, clipboard_timers)
    IN /\ pc = "running"
       /\ window = "shown"
       /\ session_last' = [ev |-> "show_frame", startup |-> is_startup_check,
                           frame |-> frame_class_name, switched |-> app_unlocked]
       /\ IF app_unlocked /\ frame_class_name = "Home"
          THEN /\ token_cards' = shown.cards
               /\ clipboard_timers' = shown.timers
               /\ refresh_timers' = shown.refresh
          ELSE UNCHANGED <<token_cards, clipboard_timers, refresh_timers>>
       /\ UNCHANGED <<search_var, clipboard, card_last>>
       /\ UNCHANGED <<backupVars, vaultVars, pinVars, pc, window, app_unlocked,
                      pin_attempts, inactivity_timer_id, auto_lock_after_seconds,
                      is_startup_check, lock_timers, verifications>>

\* SettingsFrame._set_initial_pin: the credentials after the dialog returned
\* new_pin (None when it was cancelled), and what set_app_pin raised
set_initial_pin(ls, new_pin, salt) ==
    IF Truthy(new_pin) THEN set_app_pin(ls, new_pin, salt)
    ELSE [ls |-> ls, raised |-> ""]

\* SettingsFrame._handle_change_pin: with no PIN set the new PIN is asked for
\* at once; else the current PIN is asked for, and the new one only when
\* verify_app_pin accepted it. handle_change_pin_unverified is the variant
\* that asks for the current PIN without verifying it.
\*   ls, raised: as set_initial_pin; verified: verify_app_pin returned True;
\*   asked_new: the dialog for the new PIN was opened
handle_change_pin_unverified(ls, current_pin, new_pin, salt) ==
    IF ~is_pin_set(ls)
    THEN set_initial_pin(ls, new_pin, salt) @@ [verified |-> FALSE, asked_new |-> TRUE]
    ELSE IF ~Truthy(current_pin)
    THEN [ls |-> ls, raised |-> "", verified |-> FALSE, asked_new |-> FALSE]
    ELSE set_initial_pin(ls, new_pin, salt) @@ [verified |-> FALSE, asked_new |-> TRUE]
handle_change_pin(ls, current_pin, new_pin, salt) ==
    IF ~is_pin_set(ls)
    THEN set_initial_pin(ls, new_pin, salt) @@ [verified |-> FALSE, asked_new |-> TRUE]
    ELSE IF ~Truthy(current_pin)
    THEN [ls |-> ls, raised |-> "", verified |-> FALSE, asked_new |-> FALSE]
    ELSE IF ~verify_app_pin(ls, current_pin)
    THEN [ls |-> ls, raised |-> "", verified |-> FALSE, asked_new |-> FALSE]
    ELSE set_initial_pin(ls, new_pin, salt) @@ [verified |-> TRUE, asked_new |-> TRUE]

\* the Change PIN button of the settings frame; a dialog that is not opened
\* returns nothing
ChangePin(current_pin, new_pin, salt) ==
    LET r == handle_change_pin(lock_store, current_pin, new_pin, salt)
    IN /\ pc = "running"
       /\ window = "shown"
       /\ ~is_pin_set(lock_store) => current_pin = None
       /\ ~r.asked_new => new_pin = None
       /\ lock_store' = r.ls
       /\ pin_set' = IF r.asked_new /\ Truthy(new_pin) /\ r.raised = ""
                   THEN new_pin ELSE pin_set
       /\ pin_last' = [op |-> "change", pin |-> new_pin, result |-> r.verified,
                       raised |-> r.raised]
       /\ UNCHANGED <<backupVars, cardVars, vaultVars, sessionVars>>

\* The clipboard timers after _on_closing: it cancels the timer each card of
\* token_cards refers to, if alive. cancel() stops a timer that is still
\* waiting; on one whose function is already running it has no effect.
on_closing_timers(timers) ==
    {[t EXCEPT !.destroyed = TRUE, !.current = FALSE] :
        t \in {u \in timers : ~(~u.destroyed /\ u.current /\ u.pos = "waiting")}}

\* _on_closing: the main window's close button
OnClosing ==
    /\ pc = "running"
    /\ window = "shown"
    /\ lock_timers' = IF inactivity_timer_id # "None" THEN lock_timers - 1
                      ELSE lock_timers
    /\ inactivity_timer_id' = "None"
    /\ window' = "destroyed"
    /\ pc' = "stopped"
    /\ session_last' = [ev |-> "close", startup |-> is_startup_check]
    /\ token_cards' = <<>>
    /\ refresh_timers' = {}
    /\ clipboard_timers' = on_closing_timers(clipboard_timers)
    /\ UNCHANGED <<search_var, clipboard, card_last>>
    /\ UNCHANGED <<backupVars, vaultVars, pinVars, app_unlocked, pin_attempts,
                   auto_lock_after_seconds, is_startup_check, verifications>>

NextSession ==
    \/ Launch
    \/ \E pin \in DialogPins, salt \in Salts : FirstRunPinEntered(pin, salt)
    \/ FirstRunPinClosed
    \/ ShowAppWindow
    \/ \E pin \in DialogPins : PinEntered(pin)
    \/ PinCancelled
    \/ LockButton
    \/ InactivityTimeout
    \/ Activity
    \/ \E timeout_seconds \in auto_lock_options : OnAutoLockChange(timeout_seconds)
    \/ OnClosing

\* the session when the keyring can fail while the application starts
NextSessionKeyringErrors ==
    \/ NextSession
    \/ LaunchKeyringError

-----------------------------------------------------------------------------
(* ui/settings_frame.py: encrypted backup and restore *)

SETTINGS_PBKDF2_ITERATIONS == 390000
AES_GCM_TAG_BYTES == 16

K_identifier == <<"i","d","e","n","t","i","f","i","e","r">>
K_version == <<"v","e","r","s","i","o","n">>
K_salt == <<"s","a","l","t">>
K_nonce == <<"n","o","n","c","e">>
K_ciphertext == <<"c","i","p","h","e","r","t","e","x","t">>
VERSION_ENCRYPTED == <<"1",".","0","_","e","n","c","r","y","p","t","e","d">>

\* the dict get_token_secret returns, as a JSON value
token_dict(t) ==
    [dict |-> << <<K_identifier, t.identifier>>,
                 <<K_account_name, t.account_name>>,
                 <<K_issuer_name, t.issuer_name>>,
                 <<K_secret_key, t.secret_key>>,
                 <<K_type, t.type>>,
                 <<K_recovery_codes, t.recovery_codes>> >>]

\* len(json.dumps(all_tokens, indent=4)) for a non-empty list of such dicts
\* whose values are None or ASCII text without characters JSON escapes: 2 for
\* the list's brackets, 157 for a dict's braces, keys, separators and
\* indentation, and for each value 4 (null) or its length and two quotes
json_value_len(v) == IF v = None THEN 4 ELSE Len(v) + 2
RECURSIVE json_tokens_len(_)
json_tokens_len(all_tokens) ==
    IF all_tokens = <<>> THEN 0
    ELSE LET t == Head(all_tokens)
         IN 157 + json_value_len(t.identifier) + json_value_len(t.account_name)
                + json_value_len(t.issuer_name) + json_value_len(t.secret_key)
                + json_value_len(t.type) + json_value_len(t.recovery_codes)
                + json_tokens_len(Tail(all_tokens))

\* json.dumps(all_tokens, indent=4): the text, with its length
json_dumps_indent(all_tokens) ==
    [json |-> [list |-> [i \in 1..Len(all_tokens) |-> token_dict(all_tokens[i])]],
     len |-> 2 + json_tokens_len(all_tokens)]

\* PBKDF2HMAC(SHA256, 32, salt, PBKDF2_ITERATIONS).derive(password)
kdf_derive(password, salt) == pbkdf2_hmac(password, salt, SETTINGS_PBKDF2_ITERATIONS)

\* AESGCM(key).encrypt(nonce, data, None) and .decrypt(nonce, data, None):
\* authenticated encryption. decrypt returns the data exactly for the bytes
\* encrypt produced under the same key and nonce, and raises InvalidTag for
\* any other bytes (a forgery has probability 2^-128 and is left out).
aesgcm_encrypt(key, nonce, data) ==
    [key |-> key, nonce |-> nonce, data |-> data, tag |-> "genuine"]
aesgcm_decrypt(key, nonce, ct) ==
    [raised |-> ~(ct.tag = "genuine" /\ ct.key = key /\ ct.nonce = nonce),
     data |-> ct.data]

\* base64.b64encode(b).decode('utf-8') and base64.b64decode(text). A base64
\* text is [b64 |-> the bytes it decodes to, form |-> how it is written]:
\* "canonical" as b64encode writes it; "slack_bits" when the last character
\* before the padding differs only in the bits no byte uses, which b64decode
\* ignores (such a character exists when the byte length is no multiple of 3);
\* "non_alphabet" when a character was replaced by one outside the alphabet:
\* b64decode discards it and raises binascii.Error (Incorrect padding).
b64encode(b) == [b64 |-> b, form |-> "canonical"]
b64decode(text) == [raised |-> text.form = "non_alphabet", bytes |-> text.b64]

\* what _handle_backup_tokens writes: json.dump(backup_content, f, indent=4)
backup_content(salt, nonce, encrypted_data_bytes) ==
    json_dumps([dict |-> << <<K_version, VERSION_ENCRYPTED>>,
                            <<K_salt, b64encode(salt)>>,
                            <<K_nonce, b64encode(nonce)>>,
                            <<K_ciphertext, b64encode(encrypted_data_bytes)>> >>])

encrypted_backup(text, backup_password, salt, nonce) ==
    backup_content(salt, nonce,
        aesgcm_encrypt(kdf_derive(utf8_encode(backup_password), salt), nonce,
                       utf8_encode(text)))

\* _handle_backup_tokens after the file was chosen: the outcome shown and the
\* file's content afterwards
handle_backup_tokens(st, file, backup_password, salt, nonce) ==
    LET all_tokens == get_all_token_data(st)
    IN IF all_tokens = <<>> THEN [outcome |-> "NoTokens", file |-> file]
       ELSE IF ~Truthy(backup_password)
       THEN [outcome |-> "Cancelled", file |-> file]
       ELSE [outcome |-> "Written",
             file |-> encrypted_backup(json_dumps_indent(all_tokens),
                                       backup_password, salt, nonce)]

\* the result of a restore that saved nothing
restore_ended(st, outcome, tokens) ==
    [st |-> st, outcome |-> outcome, tokens |-> tokens,
     restored_count |-> 0, failed_count |-> 0]

\* the loop of _handle_restore_tokens over the decrypted tokens
RECURSIVE restore_loop(_, _, _, _)
restore_loop(st, tokens, restored_count, failed_count) ==
    IF tokens = <<>>
    THEN [st |-> st, restored_count |-> restored_count, failed_count |-> failed_count]
    ELSE LET token_data == Head(tokens)
             account_name == DictGet(token_data, K_account_name, None)
             issuer_name == DictGet(token_data, K_issuer_name, None)
             secret_key == DictGet(token_data, K_secret_key, None)
             token_type == DictGet(token_data, K_type, TOTP)
             saved == save_token_secret(st, account_name, issuer_name, secret_key,
                                        token_type, None, None)
         IN IF Truthy(account_name) /\ Truthy(issuer_name) /\ Truthy(secret_key)
            THEN IF saved.raised = ""
                 THEN restore_loop(saved.st, Tail(tokens), restored_count + 1, failed_count)
                 ELSE restore_loop(saved.st, Tail(tokens), restored_count, failed_count + 1)
            ELSE restore_loop(st, Tail(tokens), restored_count, failed_count + 1)

\* _handle_restore_tokens from the confirmation question on;
\* confirmed_restore_saves_first is the variant that runs the loop before it
\* looks at the answer
confirmed_restore_saves_first(st, tokens, confirm_restore) ==
    LET done == restore_loop(st, tokens, 0, 0)
    IN [st |-> done.st, outcome |-> IF confirm_restore THEN "Completed" ELSE "Declined",
        tokens |-> tokens,
        restored_count |-> done.restored_count, failed_count |-> done.failed_count]
confirmed_restore(st, tokens, confirm_restore) ==
    IF ~confirm_restore THEN restore_ended(st, "Declined", tokens)
    ELSE LET done == restore_loop(st, tokens, 0, 0)
         IN [st |-> done.st, outcome |-> "Completed", tokens |-> tokens,
             restored_count |-> done.restored_count,
             failed_count |-> done.failed_count]

\* _handle_restore_tokens from json.loads of the decrypted text on
restore_decrypted(st, text, confirm_restore) ==
    IF ~IsJson(text) THEN restore_ended(st, "InvalidJson", <<>>)
    ELSE LET tokens_to_restore == json_loads(text)
         IN IF ~IsList(tokens_to_restore)
            THEN restore_ended(st, "NotTokenList", <<>>)
            ELSE IF \E i \in 1..Len(tokens_to_restore.list) :
                        ~IsDict(tokens_to_restore.list[i])
            THEN restore_ended(st, "NotTokenList", <<>>)
            ELSE IF tokens_to_restore.list = <<>>
            THEN restore_ended(st, "NoTokens", <<>>)
            ELSE confirmed_restore(st, tokens_to_restore.list, confirm_restore)

\* the keys _handle_restore_tokens looks for in the file's dict before it asks
\* for the password; envelope_keys_without_version is the variant that does
\* not look for "version"
envelope_keys_without_version == {K_salt, K_nonce, K_ciphertext}
envelope_keys == {K_version, K_salt, K_nonce, K_ciphertext}

\* _handle_restore_tokens after the file was chosen: the store afterwards, the
\* outcome shown ("InvalidJson" and "UnsupportedFormat" and "NotTokenList" and
\* "Error" under the title Restore Error, "DecryptionFailed" under the title
\* Decryption Failed), the decrypted tokens and the two counts
handle_restore_tokens(st, file, backup_password, confirm_restore) ==
    IF ~IsJson(file) THEN restore_ended(st, "InvalidJson", <<>>)
    ELSE LET content == json_loads(file) IN
    IF ~IsDict(content) THEN restore_ended(st, "UnsupportedFormat", <<>>)
    ELSE IF \E key \in envelope_keys : ~DictHas(content, key)
    THEN restore_ended(st, "UnsupportedFormat", <<>>)
    ELSE IF ~Truthy(backup_password) THEN restore_ended(st, "Cancelled", <<>>)
    ELSE LET salt == b64decode(DictGet(content, K_salt, None))
             nonce == b64decode(DictGet(content, K_nonce, None))
             ciphertext == b64decode(DictGet(content, K_ciphertext, None))
         IN
    IF salt.raised \/ nonce.raised \/ ciphertext.raised
    THEN restore_ended(st, "Error", <<>>)
    ELSE LET aes_key == kdf_derive(utf8_encode(backup_password), salt.bytes)
             decrypted == aesgcm_decrypt(aes_key, nonce.bytes, ciphertext.bytes)
         IN
    IF decrypted.raised THEN restore_ended(st, "DecryptionFailed", <<>>)
    ELSE IF decrypted.data = utf8_encode([raw |-> <<>>])
    THEN restore_ended(st, "DecryptionFailed", <<>>)
    ELSE restore_decrypted(st, utf8_decode(decrypted.data), confirm_restore)

-----------------------------------------------------------------------------
(* Inputs of backup and restore *)

Password1 == <<"p","a","s","s","w","o","r","d">>
Password2 == <<"P","a","s","s","w","o","r","d">>
\* what PasswordDialog.get_password returns: None, or a confirmed password of
\* at least 8 characters
BackupPasswords == {None, Password1}
\* what CTkInputDialog.get_input returns: None, or the text typed
RestorePasswords == {None, Password1, Password1 \o <<"NUL">>, Password2}
\* os.urandom
BackupSalts == {"salt_a"}
BackupNonces == {"nonce_a"}

\* the exported file with its ciphertext text edited in one position
ciphertext_len(file) ==
    DictGet(json_loads(file), K_ciphertext, None).b64.data.utf8.len + AES_GCM_TAG_BYTES
Edits(file) ==
    {"alphabet", "non_alphabet"}
        \cup IF ciphertext_len(file) % 3 # 0 THEN {"slack_bits"} ELSE {}
edited_text(text, edit) ==
    CASE edit = "alphabet" -> b64encode([text.b64 EXCEPT !.tag = "altered"])
      [] edit = "slack_bits" -> [text EXCEPT !.form = "slack_bits"]
      [] edit = "non_alphabet" -> [text EXCEPT !.form = "non_alphabet"]
edited_file(file, edit) ==
    LET content == json_loads(file)
    IN json_dumps([dict |-> [i \in 1..Len(content.dict) |->
                      IF content.dict[i][1] = K_ciphertext
                      THEN <<K_ciphertext, edited_text(content.dict[i][2], edit)>>
                      ELSE content.dict[i]]])

\* files made elsewhere, the encrypted ones under Password1
ReservedToken ==
    [dict |-> << <<K_account_name, ACCOUNTS_LIST_TAIL>>, <<K_issuer_name, <<"_">> >>,
                 <<K_secret_key, <<"S","3">> >>, <<K_type, TOTP>> >>]
OtherFile(source) ==
    CASE source = "not_json" -> [raw |-> <<"x">>]
      [] source = "not_envelope" -> json_dumps([dict |-> <<>>])
      [] source = "no_data" ->
            encrypted_backup([raw |-> <<>>], Password1, "salt_a", "nonce_a")
      [] source = "not_list" ->
            encrypted_backup(json_dumps([dict |-> <<>>]), Password1, "salt_a", "nonce_a")
      [] source = "empty_list" ->
            encrypted_backup(json_dumps([list |-> <<>>]), Password1, "salt_a", "nonce_a")
      [] source = "reserved_name" ->
            encrypted_backup(json_dumps([list |-> <<ReservedToken>>]), Password1,
                             "salt_a", "nonce_a")
OtherSources == {"not_json", "not_envelope", "no_data", "not_list", "empty_list",
                 "reserved_name"}

\* More files made elsewhere: a JSON list; the encrypted backup of one token
\* with one key of the envelope removed; the encrypted backup of a list in
\* which one entry lacks its secret_key
CompleteToken ==
    [dict |-> << <<K_account_name, <<"u">> >>, <<K_issuer_name, <<"A">> >>,
                 <<K_secret_key, <<"S","2">> >>, <<K_type, TOTP>> >>]
HotpToken ==
    [dict |-> << <<K_account_name, <<"u">> >>, <<K_issuer_name, <<"A">> >>,
                 <<K_secret_key, <<"S","2">> >>, <<K_type, HOTP>> >>]
IncompleteToken ==
    [dict |-> << <<K_account_name, <<"v">> >>, <<K_issuer_name, <<"A">> >> >>]
without_key(file, key) ==
    LET content == json_loads(file)
    IN json_dumps([dict |-> SelectSeq(content.dict, LAMBDA kv : kv[1] # key)])
DroppedKey(source) ==
    CASE source = "no_version" -> K_version
      [] source = "no_salt" -> K_salt
      [] source = "no_nonce" -> K_nonce
      [] source = "no_ciphertext" -> K_ciphertext
KeyDroppedSources == {"no_version", "no_salt", "no_nonce", "no_ciphertext"}
FormatFile(source) ==
    CASE source = "json_list" -> json_dumps([list |-> <<CompleteToken>>])
      [] source \in KeyDroppedSources ->
            without_key(encrypted_backup(json_dumps([list |-> <<CompleteToken>>]),
                                         Password1, "salt_a", "nonce_a"),
                        DroppedKey(source))
      [] source = "complete_token" ->
            encrypted_backup(json_dumps([list |-> <<CompleteToken>>]), Password1,
                             "salt_a", "nonce_a")
      [] source = "incomplete_token" ->
            encrypted_backup(json_dumps([list |-> <<CompleteToken, IncompleteToken>>]),
                             Password1, "salt_a", "nonce_a")
      [] source = "hotp_token" ->
            encrypted_backup(json_dumps([list |-> <<HotpToken>>]), Password1,
                             "salt_a", "nonce_a")
FormatSources == {"json_list", "complete_token", "incomplete_token"}
                     \cup KeyDroppedSources

\* the files the user can choose to restore: the last backup as written
\* ("exported"), the last backup edited, or one made elsewhere
Sources == OtherSources
             \cup IF backup_file.exists THEN {"exported"} \cup Edits(backup_file.text)
                  ELSE {}
chosen_file(source) ==
    IF source \in OtherSources THEN OtherFile(source)
    ELSE IF source \in FormatSources \cup {"hotp_token"} THEN FormatFile(source)
    ELSE IF source = "exported" THEN backup_file.text
    ELSE edited_file(backup_file.text, source)

\* The dialogs of a restore appear one after the other: the password is asked
\* for once the file has the envelope's keys, the confirmation once the
\* decrypted text is a non-empty list of dicts. An input that is never asked
\* for is None or FALSE.
asks_password(source) ==
    handle_restore_tokens(<<>>, chosen_file(source), Password1, FALSE).outcome
        \notin {"InvalidJson", "UnsupportedFormat"}
    \/ source = "no_data"
asks_confirmation(source, backup_password) ==
    handle_restore_tokens(<<>>, chosen_file(source), backup_password, FALSE).outcome
        = "Declined"
PasswordsAsked(source) == IF asks_password(source) THEN RestorePasswords ELSE {None}
ConfirmationsAsked(source, backup_password) ==
    IF asks_confirmation(source, backup_password) THEN BOOLEAN ELSE {FALSE}

\* the token the add-token dialog saves in the runs with backups
BackupTokenNames == {n \in TokenNames : n.issuer_name = <<"A">>}
BackupTokenDetails == {d \in TokenDetails : d.recovery_codes # None}

-----------------------------------------------------------------------------
(* Backup and restore as actions *)

MaxBackedUp == 2    \* with backups, no save or restore leaves more stored texts

InitBackup ==
    /\ backup_file = [exists |-> FALSE, text |-> [raw |-> <<>>]]
    /\ exported = [password |-> None, tokens |-> <<>>]

\* the Backup Tokens button
Backup(backup_password, salt, nonce) ==
    LET r == handle_backup_tokens(store, backup_file, backup_password, salt, nonce)
    IN /\ pc = "running"
       /\ window = "shown"
       /\ backup_file' = IF r.outcome = "Written"
                         THEN [exists |-> TRUE, text |-> r.file] ELSE backup_file
       /\ exported' = IF r.outcome = "Written"
                      THEN [password |-> backup_password,
                            tokens |-> get_all_token_data(store)]
                      ELSE exported
       /\ last' = [op |-> "backup", outcome |-> r.outcome]
       /\ UNCHANGED <<store, pinVars, sessionVars, cardVars>>

\* the Restore Tokens button; after a completed restore the handler calls
\* load_and_display_tokens and update_auto_lock_and_reset_timer
Restore(source, backup_password, confirm_restore) ==
    LET r == handle_restore_tokens(store, chosen_file(source), backup_password,
                                   confirm_restore)
        new_timeout == get_auto_lock_setting(r.st)
        t == reset_inactivity_timer(inactivity_timer_id, lock_timers, app_unlocked,
                                    new_timeout)
        shown == load_and_display_tokens(r.st, search_var, clipboard_timers)
    IN /\ pc = "running"
       /\ window = "shown"
       /\ Cardinality(DOMAIN r.st) <= MaxBackedUp
       /\ store' = r.st
       /\ last' = [op |-> "restore", source |-> source, password |-> backup_password,
                   confirm |-> confirm_restore, outcome |-> r.outcome,
                   tokens |-> r.tokens, restored_count |-> r.restored_count,
                   failed_count |-> r.failed_count]
       /\ IF r.outcome = "Completed"
          THEN /\ auto_lock_after_seconds' = new_timeout
               /\ inactivity_timer_id' = t.id
               /\ lock_timers' = t.timers
               /\ token_cards' = shown.cards
               /\ clipboard_timers' = shown.timers
               /\ refresh_timers' = shown.refresh
          ELSE UNCHANGED <<auto_lock_after_seconds, inactivity_timer_id, lock_timers,
                           token_cards, clipboard_timers, refresh_timers>>
       /\ UNCHANGED <<search_var, clipboard, card_last>>
       /\ UNCHANGED <<pinVars, backupVars, pc, window, app_unlocked, pin_attempts,
                      is_startup_check, verifications, session_last>>

\* the vault as the running application's dialogs change it, with backups
NextBackup ==
    \/ Launch
    \/ FirstRunPinEntered(<<"1","2","3","4">>, "salt1")
    \/ ShowAppWindow
    \/ /\ pc = "running"
       /\ Cardinality(DOMAIN store) < MaxBackedUp
       /\ \E n \in BackupTokenNames, d \in BackupTokenDetails : SaveNew(n, d)
    \/ /\ pc = "running"
       /\ \E identifier \in RecordKeys(store) : Delete(identifier)
    \/ \E backup_password \in BackupPasswords, salt \in BackupSalts,
          nonce \in BackupNonces : Backup(backup_password, salt, nonce)
    \/ \E source \in Sources :
          \E backup_password \in PasswordsAsked(source) :
              \E confirm_restore \in ConfirmationsAsked(source, backup_password) :
                  Restore(source, backup_password, confirm_restore)

\* restores of the files of FormatSources into a vault of at most one token
NextRestoreFormats ==
    \/ Launch
    \/ FirstRunPinEntered(<<"1","2","3","4">>, "salt1")
    \/ ShowAppWindow
    \/ /\ pc = "running"
       /\ Cardinality(DOMAIN store) < MaxBackedUp
       /\ \E n \in BackupTokenNames, d \in TokenDetails : SaveNew(n, d)
    \/ /\ pc = "running"
       /\ \E identifier \in RecordKeys(store) : Delete(identifier)
    \/ \E source \in FormatSources \cup {"not_json", "not_envelope"} :
          \E backup_password \in PasswordsAsked(source) :
              \E confirm_restore \in ConfirmationsAsked(source, backup_password) :
                  Restore(source, backup_password, confirm_restore)

-----------------------------------------------------------------------------
(* The token cards, their timers and the clipboard as actions *)

MaxCards == 1       \* the add-token dialog is not opened with that many tokens
MaxTimers == 2      \* no copy is made with that many clipboard timers alive

\* what the add-token dialog returns: its _ok_event accepts only base32 text
CardNames == {n \in TokenNames : n.issuer_name = <<"A">>}
CardSecrets == {s \in {<<"S","2">>, <<"S","3">>} : is_base32(s)}
\* texts typed into the search entry, texts copied in other applications
SearchTexts == {<<>>, <<"Z">>}
OtherTexts == {<<"p","w">>}

InitCards ==
    /\ token_cards = <<>>
    /\ search_var = <<>>
    /\ clipboard = <<>>
    /\ clipboard_timers = {}
    /\ refresh_timers = {}
    /\ card_last = [ev |-> "none", card |-> None, destroyed |-> FALSE,
                    expected |-> <<>>, erased |-> <<>>, window |-> "destroyed"]

\* open_add_token_dialog without identifier, the dialog returning a token: the
\* list is reloaded when save_token_secret returned
AddToken(n, secret_key) ==
    LET r == save_token_secret(store, n.account_name, n.issuer_name, secret_key,
                               TOTP, None, <<>>)
        shown == load_and_display_tokens(r.st, search_var, clipboard_timers)
    IN /\ pc = "running"
       /\ window = "shown"
       /\ Cardinality(RecordKeys(store)) < MaxCards
       /\ store' = r.st
       /\ last' = [op |-> "save_new", account_name |-> n.account_name,
                   issuer_name |-> n.issuer_name, identifier |-> None,
                   result |-> r.result, raised |-> r.raised]
       /\ IF r.raised = ""
          THEN /\ token_cards' = shown.cards
               /\ clipboard_timers' = shown.timers
               /\ refresh_timers' = shown.refresh
          ELSE UNCHANGED <<token_cards, clipboard_timers, refresh_timers>>
       /\ UNCHANGED <<search_var, clipboard, card_last>>
       /\ UNCHANGED <<pinVars, sessionVars, backupVars>>

\* open_add_token_dialog(identifier), the Edit button of a card: an error box
\* when the record cannot be read, else the dialog's token is saved under the
\* identifier and the list reloaded
EditToken(identifier, n, secret_key) ==
    LET r == save_token_secret(store, n.account_name, n.issuer_name, secret_key,
                               TOTP, identifier, <<>>)
        shown == load_and_display_tokens(r.st, search_var, clipboard_timers)
    IN /\ pc = "running"
       /\ window = "shown"
       /\ identifier \in DOMAIN token_cards
       /\ get_token_secret(store, identifier) # Absent
       /\ store' = r.st
       /\ last' = [op |-> "save_as", account_name |-> n.account_name,
                   issuer_name |-> n.issuer_name, identifier |-> identifier,
                   result |-> r.result, raised |-> r.raised]
       /\ IF r.raised = ""
          THEN /\ token_cards' = shown.cards
               /\ clipboard_timers' = shown.timers
               /\ refresh_timers' = shown.refresh
          ELSE UNCHANGED <<token_cards, clipboard_timers, refresh_timers>>
       /\ UNCHANGED <<search_var, clipboard, card_last>>
       /\ UNCHANGED <<pinVars, sessionVars, backupVars>>

\* handle_delete_token, the Del button of a card, the deletion confirmed
DeleteToken(identifier) ==
    LET r == delete_token_secret(store, identifier)
        shown == load_and_display_tokens(r.st, search_var, clipboard_timers)
    IN /\ pc = "running"
       /\ window = "shown"
       /\ identifier \in DOMAIN token_cards
       /\ store' = r.st
       /\ last' = [op |-> "delete", account_name |-> None, issuer_name |-> None,
                   identifier |-> identifier, result |-> None, raised |-> r.raised]
       /\ IF r.raised = ""
          THEN /\ token_cards' = shown.cards
               /\ clipboard_timers' = shown.timers
               /\ refresh_timers' = shown.refresh
          ELSE UNCHANGED <<token_cards, clipboard_timers, refresh_timers>>
       /\ UNCHANGED <<search_var, clipboard, card_last>>
       /\ UNCHANGED <<pinVars, sessionVars, backupVars>>

\* _filter_tokens_by_search: the text of the search entry was changed (the
\* entry is on the grid when the last load found identifiers)
FilterTokens(search_text) ==
    LET shown == load_and_display_tokens(store, search_text, clipboard_timers)
    IN /\ pc = "running"
       /\ window = "shown"
       /\ Elements(get_all_token_identifiers(store)) # <<>>
       /\ search_text # search_var
       /\ search_var' = search_text
       /\ token_cards' = shown.cards
       /\ clipboard_timers' = shown.timers
       /\ refresh_timers' = shown.refresh
       /\ UNCHANGED <<clipboard, card_last>>
       /\ UNCHANGED <<vaultVars, pinVars, sessionVars, backupVars>>

\* The timers after copy_to_clipboard of a card: the timer the card refers to
\* is cancelled if alive (cancel() stops it while it waits and has no effect
\* once its function runs), and a new one is started for the copied value.
timers_after_copy(timers, identifier, value) ==
    {[t EXCEPT !.current = (t.card # identifier /\ t.current)] :
        t \in {u \in timers : ~(u.card = identifier /\ ~u.destroyed /\ u.current
                                /\ u.pos = "waiting")}}
      \cup {[card |-> identifier, expected |-> value, destroyed |-> FALSE,
             current |-> TRUE, pos |-> "waiting"]}

\* copy_to_clipboard: the Copy button of a card
CopyToClipboard(identifier) ==
    LET value == token_cards[identifier]
    IN /\ pc = "running"
       /\ window = "shown"
       /\ identifier \in DOMAIN token_cards
       /\ Cardinality(clipboard_timers) < MaxTimers
       /\ IF value # <<>>
          THEN /\ clipboard' = value
               /\ clipboard_timers' = timers_after_copy(clipboard_timers, identifier,
                                                        value)
          ELSE UNCHANGED <<clipboard, clipboard_timers>>
       /\ card_last' = [ev |-> "copy", card |-> identifier, destroyed |-> FALSE,
                        expected |-> value, erased |-> <<>>, window |-> window]
       /\ UNCHANGED <<token_cards, search_var, refresh_timers>>
       /\ UNCHANGED <<vaultVars, pinVars, sessionVars, backupVars>>

\* update_token called by Tk's event loop (mainloop, or the loop of the modal
\* PIN dialog while the application is locked): the code of the current period
\* is shown again and the next call scheduled
UpdateToken(identifier) ==
    /\ pc \in {"running", "pin_dialog"}
    /\ identifier \in refresh_timers
    /\ card_last' = [ev |-> "update_token", card |-> identifier, destroyed |-> FALSE,
                     expected |-> token_cards[identifier], erased |-> <<>>,
                     window |-> window]
    /\ UNCHANGED <<token_cards, search_var, clipboard, clipboard_timers, refresh_timers>>
    /\ UNCHANGED <<vaultVars, pinVars, sessionVars, backupVars>>

\* clear_clipboard_if_matches on the timer's thread, first step: paste() and
\* the comparison with the expected value; the thread ends when they differ
ClipboardTimerPaste(t) ==
    /\ t \in clipboard_timers
    /\ t.pos = "waiting"
    /\ clipboard_timers' =
           IF clipboard = t.expected
           THEN (clipboard_timers \ {t}) \cup {[t EXCEPT !.pos = "matched"]}
           ELSE clipboard_timers \ {t}
    /\ card_last' = [ev |-> "paste", card |-> t.card, destroyed |-> t.destroyed,
                     expected |-> t.expected, erased |-> <<>>, window |-> window]
    /\ UNCHANGED <<token_cards, search_var, clipboard, refresh_timers>>
    /\ UNCHANGED <<vaultVars, pinVars, sessionVars, backupVars>>

\* clear_clipboard_if_matches, second step: copy("") after a comparison that
\* found the expected value; `erased` is what the clipboard held
ClipboardTimerClear(t) ==
    /\ t \in clipboard_timers
    /\ t.pos = "matched"
    /\ clipboard' = <<>>
    /\ clipboard_timers' = clipboard_timers \ {t}
    /\ card_last' = [ev |-> "clear", card |-> t.card, destroyed |-> t.destroyed,
                     expected |-> t.expected, erased |-> clipboard, window |-> window]
    /\ UNCHANGED <<token_cards, search_var, refresh_timers>>
    /\ UNCHANGED <<vaultVars, pinVars, sessionVars, backupVars>>

\* the user copies a text in another application
ExternalCopy(text) ==
    /\ text # clipboard
    /\ clipboard' = text
    /\ card_last' = [ev |-> "external_copy", card |-> None, destroyed |-> FALSE,
                     expected |-> text, erased |-> <<>>, window |-> window]
    /\ UNCHANGED <<token_cards, search_var, clipboard_timers, refresh_timers>>
    /\ UNCHANGED <<vaultVars, pinVars, sessionVars, backupVars>>

\* the interpreter ends after sys.exit or the return of mainloop: the timers'
\* threads are daemon threads and end with it
ProcessExit ==
    /\ pc = "stopped"
    /\ clipboard_timers # {}
    /\ clipboard_timers' = {}
    /\ UNCHANGED <<token_cards, search_var, clipboard, refresh_timers, card_last>>
    /\ UNCHANGED <<vaultVars, pinVars, sessionVars, backupVars>>

CardPins == {<<"1","2","3","4">>, <<"1","2","3","5">>}

NextCards ==
    \/ Launch
    \/ FirstRunPinEntered(<<"1","2","3","4">>, "salt1")
    \/ ShowAppWindow
    \/ \E pin \in CardPins : PinEntered(pin)
    \/ PinCancelled
    \/ LockButton
    \/ OnClosing
    \/ \E n \in CardNames, secret_key \in CardSecrets : AddToken(n, secret_key)
    \/ \E identifier \in DOMAIN token_cards, n \in CardNames,
          secret_key \in CardSecrets : EditToken(identifier, n, secret_key)
    \/ \E identifier \in DOMAIN token_cards : DeleteToken(identifier)
    \/ \E search_text \in SearchTexts : FilterTokens(search_text)
    \/ \E identifier \in DOMAIN token_cards : CopyToClipboard(identifier)
    \/ \E identifier \in refresh_timers : UpdateToken(identifier)
    \/ \E t \in clipboard_timers : ClipboardTimerPaste(t)
    \/ \E t \in clipboard_timers : ClipboardTimerClear(t)
    \/ \E text \in OtherTexts : ExternalCopy(text)
    \/ ProcessExit

-----------------------------------------------------------------------------
(* The operations the main window offers, in a session that locks and unlocks *)

UnlockPins == {<<"1","2","3","4">>, <<"1","2","3","5">>}
UnlockTimeouts == {0}

\* the handlers of the buttons, menus and entries of the main window that
\* work on the vault, the credential or the views
UiOperation ==
    \/ \E n \in CardNames : AddToken(n, <<"S","2">>)
    \/ \E identifier \in DOMAIN token_cards, n \in CardNames :
          EditToken(identifier, n, <<"S","2">>)
    \/ \E identifier \in DOMAIN token_cards : DeleteToken(identifier)
    \/ Backup(Password1, "salt_a", "nonce_a")
    \/ /\ backup_file.exists
       /\ \E confirm_restore \in ConfirmationsAsked("exported", Password1) :
              Restore("exported", Password1, confirm_restore)
    \/ \E current_pin \in UnlockPins \cup {None}, new_pin \in {<<"1","2","3","4">>, None} :
          ChangePin(current_pin, new_pin, "salt1")
    \/ \E timeout_seconds \in UnlockTimeouts : OnAutoLockChange(timeout_seconds)
    \/ \E frame_class_name \in FrameNames : ShowFrame(frame_class_name)

NextUnlocked ==
    \/ Launch
    \/ FirstRunPinEntered(<<"1","2","3","4">>, "salt1")
    \/ ShowAppWindow
    \/ PinEntered(<<"1","2","3","4">>)
    \/ LockButton
    \/ InactivityTimeout
    \/ UiOperation

\* what the two dialogs of a PIN change return, and the salts drawn
ChangePinCurrent == {None, <<"1","2","3","4">>, <<"1","2","3","5">>}
ChangePinNew == {None, <<"1","2","3","4">>, <<"1","2","3","5">>, <<"1","2","3","4","5">>}
ChangePinSalts == {"salt1", "salt2"}

\* PIN changes in a session that locks and unlocks
NextChangePin ==
    \/ Launch
    \/ FirstRunPinEntered(<<"1","2","3","4">>, "salt1")
    \/ ShowAppWindow
    \/ \E pin \in UnlockPins : PinEntered(pin)
    \/ LockButton
    \/ \E current_pin \in ChangePinCurrent, new_pin \in ChangePinNew,
          salt \in ChangePinSalts : ChangePin(current_pin, new_pin, salt)

\* tokens added, restored from a backup that holds an HOTP token, edited and
\* deleted in a session that locks and unlocks
EditSecrets == {<<"S","1">>, <<"S","2">>}
NextEdit ==
    \/ Launch
    \/ FirstRunPinEntered(<<"1","2","3","4">>, "salt1")
    \/ ShowAppWindow
    \/ PinEntered(<<"1","2","3","4">>)
    \/ LockButton
    \/ OnClosing
    \/ \E n \in CardNames : AddToken(n, <<"S","1">>)
    \/ \E confirm_restore \in ConfirmationsAsked("hotp_token", Password1) :
          Restore("hotp_token", Password1, confirm_restore)
    \/ \E identifier \in DOMAIN token_cards, n \in CardNames,
          secret_key \in EditSecrets : EditToken(identifier, n, secret_key)
    \/ \E identifier \in DOMAIN token_cards : DeleteToken(identifier)

-----------------------------------------------------------------------------
(* The operations of the main window when the keyring backend fails *)

\* the `except` branches of the handlers of the main window: the error is
\* shown in a message box and the handler returns; show_error_and_quit is the
\* variant that ends the application, as the handlers of the initial PIN
\* check do
show_error_and_quit == quit_application_if_pin_cancelled
show_error ==
    /\ pc' = pc
    /\ window' = window
    /\ UNCHANGED cardVars

\* open_add_token_dialog without identifier, one write of save_token_secret
\* failing
AddTokenKeyringError(n, secret_key, failing_write) ==
    LET r == save_token_secret_keyring_error(store, n.account_name, n.issuer_name,
                 secret_key, TOTP, None, <<>>, failing_write)
        shown == load_and_display_tokens(r.st, search_var, clipboard_timers)
    IN /\ pc = "running"
       /\ window = "shown"
       /\ Cardinality(RecordKeys(store)) < MaxCards
       /\ store' = r.st
       /\ last' = [op |-> "save_new", account_name |-> n.account_name,
                   issuer_name |-> n.issuer_name, identifier |-> None,
                   result |-> r.result, raised |-> r.raised,
                   failing_write |-> failing_write]
       /\ IF r.raised = ""
          THEN /\ token_cards' = shown.cards
               /\ clipboard_timers' = shown.timers
               /\ refresh_timers' = shown.refresh
               /\ UNCHANGED <<search_var, clipboard, card_last, pc, window>>
          ELSE show_error
       /\ UNCHANGED <<pinVars, backupVars, app_unlocked, pin_attempts,
                      inactivity_timer_id, auto_lock_after_seconds, is_startup_check,
                      lock_timers, verifications, session_last>>

\* handle_delete_token, the deletion confirmed, keyring.delete_password failing
DeleteTokenKeyringError(identifier, error) ==
    LET r == delete_token_secret_keyring_error(store, identifier, error)
        shown == load_and_display_tokens(r.st, search_var, clipboard_timers)
    IN /\ pc = "running"
       /\ window = "shown"
       /\ identifier \in DOMAIN token_cards
       /\ store' = r.st
       /\ last' = [op |-> "delete", account_name |-> None, issuer_name |-> None,
                   identifier |-> identifier, result |-> None, raised |-> r.raised,
                   error |-> error]
       /\ IF r.raised = ""
          THEN /\ token_cards' = shown.cards
               /\ clipboard_timers' = shown.timers
               /\ refresh_timers' = shown.refresh
               /\ UNCHANGED <<search_var, clipboard, card_last, pc, window>>
          ELSE show_error
       /\ UNCHANGED <<pinVars, backupVars, app_unlocked, pin_attempts,
                      inactivity_timer_id, auto_lock_after_seconds, is_startup_check,
                      lock_timers, verifications, session_last>>

\* load_and_display_tokens (the Home button) with no keyring backend: the
\* read functions return [] and None, and no card is shown
ListTokensKeyringError ==
    LET shown == load_and_display_tokens(<<>>, search_var, clipboard_timers)
    IN /\ pc = "running"
       /\ window = "shown"
       /\ app_unlocked
       /\ token_cards' = shown.cards
       /\ clipboard_timers' = shown.timers
       /\ refresh_timers' = shown.refresh
       /\ last' = [op |-> "list", account_name |-> None, issuer_name |-> None,
                   identifier |-> None,
                   result |-> get_all_token_identifiers_on(store, FALSE),
                   raised |-> "", reachable |-> FALSE]
       /\ UNCHANGED <<search_var, clipboard, card_last>>
       /\ UNCHANGED <<store, pinVars, backupVars, sessionVars>>

\* the loop of _handle_restore_tokens when one write of each save fails: the
\* error is caught per entry and counted
RECURSIVE restore_loop_keyring_error(_, _, _, _, _)
restore_loop_keyring_error(st, tokens, restored_count, failed_count, failing_write) ==
    IF tokens = <<>>
    THEN [st |-> st, restored_count |-> restored_count, failed_count |-> failed_count]
    ELSE LET token_data == Head(tokens)
             account_name == DictGet(token_data, K_account_name, None)
             issuer_name == DictGet(token_data, K_issuer_name, None)
             secret_key == DictGet(token_data, K_secret_key, None)
             token_type == DictGet(token_data, K_type, TOTP)
             saved == save_token_secret_keyring_error(st, account_name, issuer_name,
                          secret_key, token_type, None, None, failing_write)
         IN IF Truthy(account_name) /\ Truthy(issuer_name) /\ Truthy(secret_key)
            THEN IF saved.raised = ""
                 THEN restore_loop_keyring_error(saved.st, Tail(tokens),
                          restored_count + 1, failed_count, failing_write)
                 ELSE restore_loop_keyring_error(saved.st, Tail(tokens),
                          restored_count, failed_count + 1, failing_write)
            ELSE restore_loop_keyring_error(st, Tail(tokens), restored_count,
                                            failed_count + 1, failing_write)

\* the Restore Tokens button, the restore confirmed, the writes of the saves
\* failing: the summary is shown, the list reloaded and the timer reset
RestoreKeyringError(source, backup_password, failing_write) ==
    LET r == handle_restore_tokens(store, chosen_file(source), backup_password, TRUE)
        done == restore_loop_keyring_error(store, r.tokens, 0, 0, failing_write)
        new_timeout == get_auto_lock_setting(done.st)
        t == reset_inactivity_timer(inactivity_timer_id, lock_timers, app_unlocked,
                                    new_timeout)
        shown == load_and_display_tokens(done.st, search_var, clipboard_timers)
    IN /\ pc = "running"
       /\ window = "shown"
       /\ r.outcome = "Completed"
       /\ Cardinality(DOMAIN done.st) <= MaxBackedUp
       /\ store' = done.st
       /\ last' = [op |-> "restore", source |-> source, password |-> backup_password,
                   confirm |-> TRUE, outcome |-> r.outcome, tokens |-> r.tokens,
                   restored_count |-> done.restored_count,
                   failed_count |-> done.failed_count,
                   failing_write |-> failing_write]
       /\ auto_lock_after_seconds' = new_timeout
       /\ inactivity_timer_id' = t.id
       /\ lock_timers' = t.timers
       /\ token_cards' = shown.cards
       /\ clipboard_timers' = shown.timers
       /\ refresh_timers' = shown.refresh
       /\ UNCHANGED <<search_var, clipboard, card_last>>
       /\ UNCHANGED <<pinVars, backupVars, pc, window, app_unlocked, pin_attempts,
                      is_startup_check, verifications, session_last>>

\* a vault operation of the running application in which the keyring fails
StorageFailure ==
    \/ \E n \in CardNames, failing_write \in FailingWrites :
          AddTokenKeyringError(n, <<"S","2">>, failing_write)
    \/ \E identifier \in DOMAIN token_cards, error \in DeleteErrors :
          DeleteTokenKeyringError(identifier, error)
    \/ ListTokensKeyringError
    \/ \E failing_write \in FailingWrites :
          RestoreKeyringError("complete_token", Password1, failing_write)

NextUnlockedKeyringErrors ==
    \/ Launch
    \/ FirstRunPinEntered(<<"1","2","3","4">>, "salt1")
    \/ ShowAppWindow
    \/ PinEntered(<<"1","2","3","4">>)
    \/ LockButton
    \/ \E n \in CardNames : AddToken(n, <<"S","2">>)
    \/ \E identifier \in DOMAIN token_cards : DeleteToken(identifier)
    \/ \E frame_class_name \in FrameNames : ShowFrame(frame_class_name)
    \/ StorageFailure

-----------------------------------------------------------------------------

Init == InitVault /\ InitPin /\ InitSession /\ InitBackup /\ InitCards

SpecVault == Init /\ [][NextVault]_vars
SpecVaultKeyringErrors == Init /\ [][NextVaultKeyringErrors]_vars
SpecVaultCalls == Init /\ [][NextVaultCalls]_vars
SpecVaultNames == Init /\ [][NextVaultNames]_vars
SpecVaultCorrupted == Init /\ [][NextVaultCorrupted]_vars
SpecVaultReads == Init /\ [][NextVaultReads]_vars
SpecPin == Init /\ [][NextPin]_vars
SpecPinKeyringErrors == Init /\ [][NextPinKeyringErrors]_vars
SpecSession == Init /\ [][NextSession]_vars
\* Tk's event loop (mainloop, and the loops modal dialogs run) calls an `after`
\* callback that is due: a lock callback that stays pending runs eventually
SpecSessionFair == SpecSession /\ WF_vars(InactivityTimeout)
SpecBackup == Init /\ [][NextBackup]_vars
SpecCards == Init /\ [][NextCards]_vars
SpecRestoreFormats == Init /\ [][NextRestoreFormats]_vars
SpecUnlocked == Init /\ [][NextUnlocked]_vars
SpecChangePin == Init /\ [][NextChangePin]_vars
SpecEdit == Init /\ [][NextEdit]_vars
SpecSessionKeyringErrors == Init /\ [][NextSessionKeyringErrors]_vars
SpecUnlockedKeyringErrors == Init /\ [][NextUnlockedKeyringErrors]_vars
SpecVaultSettings == Init /\ [][NextVaultSettings]_vars

Next == NextVaultKeyringErrors \/ NextVaultCalls \/ NextVaultNames \/ NextVaultCorrupted \/ NextVaultReads \/ NextPinKeyringErrors \/ NextSession \/ NextBackup \/ NextCards \/ NextRestoreFormats \/ NextUnlocked \/ NextVaultSettings \/ NextUnlockedKeyringErrors \/ NextSessionKeyringErrors \/ NextChangePin \/ NextEdit
Spec == Init /\ [][Next]_vars

-----------------------------------------------------------------------------
(* Claims about the vault *)

Index(st) == get_all_token_identifiers(st)
Retrievable(st, identifier) == get_token_secret(st, identifier) # Absent

\* C1: the list get_all_token_identifiers returns contains exactly the
\* identifiers for which get_token_secret returns a record: every listed
\* identifier has a retrievable record, and every retrievable record is listed.
C1_IndexConsistency ==
    /\ \A i \in 1..Len(Elements(Index(store))) :
           Retrievable(store, Elements(Index(store))[i])
    /\ \A k \in DOMAIN store : Retrievable(store, k) => Contains(Index(store), k)

Candidate(n) == str_replace(str_lower(n.issuer_name), " ", "_") \o <<"_">>
                    \o str_replace(str_lower(n.account_name), " ", "_")
LastNames == [issuer_name |-> last.issuer_name, account_name |-> last.account_name]

\* C2: two successive saves without identifier and with the same issuer and
\* account return two distinct identifiers, the second being the candidate
\* extended by a numeric suffix, and both records are retrievable afterwards;
\* and a save without identifier never returns an identifier already indexed.
C2_IdentifierUniqueness ==
    [][ last'.op = "save_new" =>
          /\ last'.result # None => ~Contains(Index(store), last'.result)
          /\ ( /\ last.op = "save_new"
               /\ last.issuer_name = last'.issuer_name
               /\ last.account_name = last'.account_name )
             => /\ last.result # None
                /\ last'.result # None
                /\ last.result # last'.result
                /\ \E k \in 1..(MaxStored + 1) :
                       last'.result = Candidate(LastNames) \o <<"_">> \o int_str(k)
                /\ Retrievable(store', last.result)
                /\ Retrievable(store', last'.result) ]_vars

\* C3: a save with an explicit identifier returns that identifier, changes
\* no text stored under another identifier, and leaves the accounts index as
\* it was when the identifier was already indexed.
C3_EditSemantics ==
    [][ last'.op = "save_as" =>
          LET id == last'.identifier IN
          /\ last'.result = id
          /\ Retrievable(store', id)
          /\ \A k \in RecordKeys(store) \ {id} :
                 k \in DOMAIN store' /\ store'[k] = store[k]
          /\ Contains(Index(store), id) => Index(store') = Index(store) ]_vars

-----------------------------------------------------------------------------
(* Claims about backup and restore (ui/settings_frame.py) *)

\* the vault's entries, and a decrypted token save_token_secret accepts
Entries(st) == get_all_token_data(st)
WellFormed(token_data) ==
    /\ Truthy(DictGet(token_data, K_account_name, None))
    /\ Truthy(DictGet(token_data, K_issuer_name, None))
    /\ Truthy(DictGet(token_data, K_secret_key, None))
    /\ str_upper(DictGet(token_data, K_type, TOTP)) \in {TOTP, HOTP}

\* C4 (restore is additive): a confirmed restore of a decrypted backup of N
\* well-formed records leaves N more entries in the vault, and every record
\* indexed before is still stored under its identifier with the same fields.
C4_RestoreAdditive ==
    [][ ( /\ last'.op = "restore"
          /\ last'.outcome = "Completed"
          /\ \A i \in 1..Len(last'.tokens) : WellFormed(last'.tokens[i]) )
        => /\ Len(Entries(store')) = Len(Entries(store)) + Len(last'.tokens)
           /\ \A i \in 1..Len(Elements(Index(store))) :
                  LET id == Elements(Index(store))[i]
                  IN get_token_secret(store', id) = get_token_secret(store, id) ]_vars

EmptyVault(st) == RecordKeys(st) = {} /\ Elements(Index(st)) = <<>>
SameFields(t, u) ==
    /\ t.account_name = u.account_name
    /\ t.issuer_name = u.issuer_name
    /\ t.secret_key = u.secret_key
    /\ t.type = u.type
    /\ t.recovery_codes = u.recovery_codes

\* C5 (backup round-trip): restoring the exported file, unedited and with the
\* export password, into an empty vault completes, and the vault's records
\* then equal the exported ones up to their identifiers: each exported record
\* has a restored one with the same account_name, issuer_name, secret_key,
\* type and recovery_codes, and the other way round.
C5_BackupRoundTrip ==
    [][ ( /\ last'.op = "restore"
          /\ last'.source = "exported"
          /\ last'.password = exported.password
          /\ last'.confirm
          /\ EmptyVault(store) )
        => /\ last'.outcome = "Completed"
           /\ Len(Entries(store')) = Len(exported.tokens)
           /\ \A i \in 1..Len(exported.tokens) : \E j \in 1..Len(Entries(store')) :
                  SameFields(exported.tokens[i], Entries(store')[j])
           /\ \A j \in 1..Len(Entries(store')) : \E i \in 1..Len(exported.tokens) :
                  SameFields(exported.tokens[i], Entries(store')[j]) ]_vars

\* C6 (decryption fails closed): a restore of the exported file with a
\* password other than the export password, or with its ciphertext text
\* changed in one position, ends in the outcome DecryptionFailed and with no
\* record decrypted or saved.
C6_DecryptionFailsClosed ==
    ( /\ last.op = "restore"
      /\ Truthy(last.password)
      /\ last.source \notin OtherSources
      /\ last.source # "exported" \/ last.password # exported.password )
    => /\ last.outcome = "DecryptionFailed"
       /\ last.tokens = <<>>
       /\ last.restored_count = 0

\* C7 (a failed or abandoned import never changes the vault): a restore that
\* ends in any outcome but the completed one (decryption failed, a format
\* rejected, the password prompt cancelled, the confirmation declined) leaves
\* every stored text, the accounts index among them, as it was; the store
\* changes only in a restore that decrypted and parsed a list of tokens and
\* was confirmed.
C7_FailedImportKeepsVault ==
    [][ last'.op = "restore" =>
          /\ last'.outcome # "Completed" => store' = store
          /\ store' # store => (last'.confirm /\ last'.tokens # <<>>) ]_vars

\* a declined restore of decrypted tokens has just left a vault with a record
C7_Witness ==
    /\ last.op = "restore"
    /\ last.outcome = "Declined"
    /\ last.tokens # <<>>
    /\ RecordKeys(store) # {}

-----------------------------------------------------------------------------
(* Claims about the PIN gate *)

\* C8 as stated: after set_app_pin(p) succeeded, verify_app_pin(q) returns
\* true for q = p and false for every other q; it returns false for every
\* input while no PIN was ever set; and after a later set_app_pin(p2) with
\* p2 # p it returns false for p.
C8_PinRoundTrip ==
    pin_last.op = "verify" =>
        pin_last.result = (pin_set # None /\ pin_last.pin = pin_set)

\* a PIN without the NUL characters at its end
RECURSIVE StripNul(_)
StripNul(pin) == IF pin # <<>> /\ pin[Len(pin)] = "NUL"
                 THEN StripNul(SubSeq(pin, 1, Len(pin) - 1)) ELSE pin

\* C8 as amended: verify_app_pin(q) returns true exactly when a PIN p was set
\* and q equals p up to NUL characters at the end of either; so true for p,
\* false for every q that differs from p otherwise, false for every input
\* while no PIN was ever set, and false for p after a later set_app_pin(p2)
\* unless p2 is p up to trailing NULs.
C8_PinRoundTripUpToNul ==
    pin_last.op = "verify" =>
        pin_last.result = (pin_set # None /\ StripNul(pin_last.pin) = StripNul(pin_set))

\* C8 witness: a PIN is set, and verify_app_pin has just returned false for a
\* PIN of valid length that differs from it otherwise than by trailing NULs.
C8_Witness ==
    /\ pin_last.op = "verify"
    /\ pin_last.result = FALSE
    /\ pin_set # None
    /\ pin_last.pin # pin_set
    /\ Len(pin_last.pin) >= 4
    /\ StripNul(pin_last.pin) # StripNul(pin_set)

-----------------------------------------------------------------------------
(* Claims about the unlock protocol (main.py) *)

\* C9 (attempt cap): within one run of the unlock protocol, the third
\* consecutive failed verification ends the run with access denied and the
\* process terminated, an earlier failure only prompts again, no run makes a
\* fourth verification, and a successful verification on any of the three
\* attempts leaves the session unlocked.
C9_AttemptCap ==
    /\ verifications <= MAX_PIN_ATTEMPTS
    /\ session_last.ev = "pin_bad" =>
         /\ ~app_unlocked
         /\ IF verifications = MAX_PIN_ATTEMPTS
            THEN pc = "stopped" /\ window = "destroyed"
            ELSE pc = "pin_dialog"
    /\ session_last.ev = "pin_ok" =>
         /\ app_unlocked
         /\ verifications \in 1..MAX_PIN_ATTEMPTS
         /\ pc \in {"starting", "running"}

\* the third failed verification of a run has just ended the process
C9_Witness ==
    /\ session_last.ev = "pin_bad"
    /\ verifications = MAX_PIN_ATTEMPTS
    /\ pc = "stopped"

C11_MandatoryCancelDenies ==
    ( \/ session_last.ev = "first_pin_closed"
      \/ session_last.ev = "pin_cancel" /\ session_last.startup )
    => (pc = "stopped" /\ window = "destroyed" /\ ~app_unlocked)

\* the unlock prompt of the initial check of a later launch was just closed
C11_Witness ==
    /\ session_last.ev = "pin_cancel"
    /\ session_last.startup
    /\ is_pin_set(lock_store)
    /\ pc = "stopped"

\* C12 (lock requires re-authentication): right after the inactivity timer
\* fired or the Lock button ran lock_application the session is locked
\* (app_unlocked false, window withdrawn), and every step that unlocks a
\* session locked that way is a verify_app_pin call that returned true for a
\* PIN equal, up to the padding of the hash, to the PIN that was set.
Locked == pc = "pin_dialog" /\ ~is_startup_check /\ ~app_unlocked

C12_LockRequiresReauthentication ==
    /\ [](session_last.ev \in {"timeout", "lock_button"}
            => (Locked /\ window = "withdrawn"))
    /\ [][(Locked /\ app_unlocked')
            => /\ pin_last'.op = "verify"
               /\ pin_last'.result
               /\ verifications' = verifications + 1
               /\ StripNul(pin_last'.pin) = StripNul(pin_set)]_vars

\* a session locked by lock_application was unlocked again
C12_Witness ==
    /\ session_last.ev = "pin_ok"
    /\ ~session_last.startup
    /\ app_unlocked
    /\ window = "shown"
    /\ pc = "running"

\* C13 (auto-lock disabled): in every state in which auto_lock_after_seconds
\* is 0 no inactivity timer is pending and no lock callback is scheduled,
\* also right after the setting went from a positive value to 0 while a timer
\* was pending.
C13_DisabledSchedulesNoLock ==
    auto_lock_after_seconds = 0
    => (inactivity_timer_id = "None" /\ lock_timers = 0)

\* the timeout was just set to 0 from a positive value with a timer pending
C13_Witness ==
    /\ session_last.ev = "auto_lock_change"
    /\ session_last.timeout_before > 0
    /\ session_last.pending_before = 1
    /\ auto_lock_after_seconds = 0
    /\ app_unlocked
    /\ lock_timers = 0

\* C14 (activity restarts the countdown): at most one lock callback is ever
\* pending, and it is the one inactivity_timer_id names; an activity event in
\* an unlocked session with a positive timeout leaves exactly one pending
\* countdown, scheduled by that event for the full auto_lock_after_seconds;
\* the expiry of the countdown is one lock transition, after which nothing is
\* pending; and a pending countdown does not stay pending for ever.
Pending == pc = "running" /\ lock_timers > 0

C14_ActivityRestartsCountdown ==
    /\ [](/\ lock_timers \in {0, 1}
          /\ lock_timers = 1 <=> inactivity_timer_id = "after")
    /\ []((session_last.ev = "activity" /\ app_unlocked
                /\ auto_lock_after_seconds > 0)
            => /\ lock_timers = 1
               /\ session_last.scheduled_ms = auto_lock_after_seconds * 1000)
    /\ [][(pc = "running" /\ session_last'.ev = "timeout")
            => (lock_timers = 1 /\ lock_timers' = 0 /\ Locked'
                /\ window' = "withdrawn")]_vars
    /\ (Pending ~> ~Pending)

\* an activity event arrived while a countdown was pending
C14_Witness ==
    /\ session_last.ev = "activity"
    /\ session_last.pending_before = 1
    /\ app_unlocked
    /\ auto_lock_after_seconds = 60
    /\ session_last.scheduled_ms = 60000
    /\ lock_timers = 1

\* C15 (no timer while locked): whenever the session is not unlocked no
\* inactivity timer is pending, also right after an activity event that
\* arrived during the unlock prompt; and the step that starts a countdown
\* again after a lock is the successful PIN verification that unlocks.
C15_NoTimerWhileLocked ==
    /\ [](~app_unlocked => (inactivity_timer_id = "None" /\ lock_timers = 0))
    /\ [][(Locked /\ lock_timers' > 0)
            => /\ app_unlocked'
               /\ session_last'.ev = "pin_ok"
               /\ pin_last'.op = "verify"
               /\ pin_last'.result]_vars

\* an activity event arrived during the unlock prompt of a locked session
C15_Witness ==
    /\ session_last.ev = "activity"
    /\ Locked
    /\ auto_lock_after_seconds > 0
    /\ session_last.scheduled_ms = 0
    /\ lock_timers = 0

\* C16 (atomic index update): a save_token_secret call that raises leaves
\* the whole store, records and index, as it was before the call; and every
\* record a save newly stores is in the index when the save ends.
SaveOps == {"save_new", "save_as"}

C16_AtomicIndexUpdate ==
    /\ [][(last'.op \in SaveOps /\ last'.raised # "") => store' = store]_vars
    /\ [][last'.op \in SaveOps
            => \A k \in RecordKeys(store') \ RecordKeys(store) :
                   Contains(Index(store'), k)]_vars

\* C17 (delete always de-indexes): after a delete_token_secret(id) call,
\* whether the backend's delete succeeded or failed, and whatever the error it
\* failed with, the index does not contain id.
C17_DeleteRemovesFromIndex ==
    last.op = "delete" => ~Contains(Index(store), last.identifier)

\* C18 as stated (validation): a save_token_secret call in which account_name,
\* issuer_name or secret_key is empty, or in which the type is neither "TOTP"
\* nor "HOTP", raises ValueError and leaves the store as it was.
EmptyArgument(call) ==
    ~Truthy(call.account_name) \/ ~Truthy(call.issuer_name) \/ ~Truthy(call.secret_key)

EqualIgnoringCase(a, b) == str_lower(a) = str_lower(b)
Rejected(call) ==
    \/ EmptyArgument(call)
    \/ ~(EqualIgnoringCase(call.token_type, TOTP)
          \/ EqualIgnoringCase(call.token_type, HOTP))

Listed(st) == Elements(Index(st))
Range(seq) == {seq[i] : i \in 1..Len(seq)}
KeepsOrder(before, after) ==
    \A i, j \in 1..Len(after) :
        /\ (after[i] \in Range(before) /\ after[j] \notin Range(before)) => i < j
        /\ \A p, q \in 1..Len(before) :
               (before[p] = after[i] /\ before[q] = after[j] /\ p < q) => i < j

C19_IndexOrder ==
    /\ [](LET listed == Listed(store)
          IN \A i, j \in 1..Len(listed) : listed[i] = listed[j] => i = j)
    /\ [][store' # store => KeepsOrder(Listed(store), Listed(store'))]_vars
    /\ [][(last'.op \in SaveOps /\ last'.raised = ""
             /\ Contains(Index(store), last'.result))
            => Index(store') = Index(store)]_vars

\* the first of two listed identifiers was just saved again, and is still first
C19_Witness ==
    /\ last.op = "save_as"
    /\ last.raised = ""
    /\ IsList(Index(store))
    /\ Len(Listed(store)) = 2
    /\ Listed(store)[1] = last.identifier

\* C20 (identifier derivation): a save without identifier that passes
\* validation stores its record under the candidate (issuer_name and
\* account_name in lower case with spaces replaced by underscores, joined by
\* an underscore) when no record is retrievable under the candidate, and
\* otherwise under candidate_k for the smallest k >= 1 under which no record
\* is retrievable; it returns that identifier when it returns, and stores
\* nothing under any other identifier.
Suffixed(candidate, k) == candidate \o <<"_">> \o int_str(k)
SmallestFree(st, candidate) ==
    CHOOSE k \in 1..(Cardinality(DOMAIN st) + 1) :
        /\ ~Retrievable(st, Suffixed(candidate, k))
        /\ \A j \in 1..(k - 1) : Retrievable(st, Suffixed(candidate, j))
Derived(st, n) ==
    IF ~Retrievable(st, Candidate(n)) THEN Candidate(n)
    ELSE Suffixed(Candidate(n), SmallestFree(st, Candidate(n)))

C20_IdentifierDerivation ==
    [][(last'.op = "save_new" /\ last'.raised # "ValueError")
        => LET n == [issuer_name |-> last'.issuer_name,
                     account_name |-> last'.account_name]
               derived == Derived(store, n)
           IN /\ last'.raised = "" => last'.result = derived
              /\ Retrievable(store', derived)
              /\ get_token_secret(store', derived).account_name = n.account_name
              /\ get_token_secret(store', derived).issuer_name = n.issuer_name
              /\ \A k \in DOMAIN store' \ {derived, ACCOUNTS_LIST_KEY} :
                     k \in DOMAIN store /\ store'[k] = store[k]]_vars

\* a save found the candidate and candidate_1 taken and returned candidate_2
C20_Witness ==
    /\ last.op = "save_new"
    /\ last.raised = ""
    /\ last.result = Suffixed(Candidate(LastNames), 2)
    /\ Retrievable(store, Candidate(LastNames))
    /\ Retrievable(store, Suffixed(Candidate(LastNames), 1))

\* C21 (partial listing): get_all_token_data returns, in index order, exactly
\* the listed identifiers whose stored text parses to a record with non-empty
\* account_name, issuer_name and secret_key, each with the record
\* get_token_secret gives for it; a listed identifier whose text is
\* unparsable, is no record or lacks one of the three fields is left out and
\* everything after it is still returned.
StoredValid(st, identifier) ==
    /\ identifier \in DOMAIN st
    /\ IsJson(st[identifier])
    /\ IsDict(json_loads(st[identifier]))
    /\ \A key \in {K_account_name, K_issuer_name, K_secret_key} :
           /\ DictHas(json_loads(st[identifier]), key)
           /\ Truthy(DictGet(json_loads(st[identifier]), key, None))
ValidListed(st) == SelectSeq(Listed(st), LAMBDA identifier : StoredValid(st, identifier))

C21_PartialListing ==
    LET all_data == get_all_token_data(store)
        valid == ValidListed(store)
    IN /\ Len(all_data) = Len(valid)
       /\ \A i \in 1..Len(valid) :
              /\ all_data[i].identifier = valid[i]
              /\ all_data[i] = get_token_secret(store, valid[i])

\* the first of three listed records was corrupted and the other two are
\* still returned
C21_Witness ==
    /\ IsList(Index(store))
    /\ Len(Listed(store)) = 3
    /\ ~StoredValid(store, Listed(store)[1])
    /\ Listed(store)[1] \in DOMAIN store
    /\ Len(get_all_token_data(store)) = 2

\* C22 (read-side defaults): every record get_token_secret returns has a type
\* (TOTP when the stored text has none), and its recovery_codes is the empty
\* string whenever the stored text holds no recovery codes, as after a save
\* without recovery_codes.
StoredRecoveryCodes(st, identifier) ==
    DictGet(json_loads(st[identifier]), K_recovery_codes, None)

C22_ReadSideDefaults ==
    \A identifier \in RecordKeys(store) :
        Retrievable(store, identifier)
        => LET token_info == get_token_secret(store, identifier)
           IN /\ token_info.type # None
              /\ ~DictHas(json_loads(store[identifier]), K_type)
                    => token_info.type = TOTP
              /\ StoredRecoveryCodes(store, identifier) = None
                    => token_info.recovery_codes = <<>>

\* C23 (unavailable is not "not found"): what a get_token_secret call returns
\* when the keyring cannot be reached differs from what the call returns on a
\* reachable keyring that holds no record under the identifier; and what
\* get_all_token_identifiers returns when the keyring cannot be reached
\* differs from what it returns on a reachable keyring that lists nothing.
C23_UnavailableIsDistinct ==
    /\ (last.op = "get_token_secret" /\ ~last.reachable
           /\ ~Retrievable(store, last.identifier))
          => last.result # get_token_secret_on(store, last.identifier, TRUE)
    /\ (last.op = "get_all_token_identifiers" /\ ~last.reachable
           /\ Listed(store) = <<>>)
          => last.result # get_all_token_identifiers_on(store, TRUE)

\* C24 (credential all-or-nothing): the stored salt and hash are both absent,
\* or both present with the hash being the hash of the PIN last set under the
\* stored salt; also after a set_app_pin call that failed.
C24_CredentialAllOrNothing ==
    \/ lock_store.app_pin_salt = Absent /\ lock_store.app_pin_hash = Absent
    \/ /\ lock_store.app_pin_salt # Absent
       /\ lock_store.app_pin_hash # Absent
       /\ pin_set # None
       /\ lock_store.app_pin_hash
              = bytes_hex(hash_pin(pin_set, bytes_fromhex(lock_store.app_pin_salt)))

\* C25 (short PIN rejected): a set_app_pin call with a PIN of fewer than 4
\* characters raises ValueError and leaves the stored credential as it was:
\* absent if it was absent, and otherwise still verifying the PIN set before.
C25_ShortPinRejected ==
    [][(pin_last'.op = "set" /\ Len(pin_last'.pin) < 4)
        => /\ pin_last'.raised = "ValueError"
           /\ lock_store' = lock_store
           /\ is_pin_set(lock_store') = is_pin_set(lock_store)
           /\ pin_set # None => verify_app_pin(lock_store', pin_set)]_vars

\* a PIN of three characters was just rejected while a credential was stored
C25_Witness ==
    /\ pin_last.op = "set"
    /\ Len(pin_last.pin) = 3
    /\ pin_last.raised = "ValueError"
    /\ is_pin_set(lock_store)
    /\ verify_app_pin(lock_store, pin_set)

-----------------------------------------------------------------------------
(* Claims about the token cards, the clipboard and the timers *)

\* C26: the clipboard-clear timer clears the clipboard only when, at the
\* moment of clearing, it still holds the copied value: whatever the
\* interleaving of the timer's thread with later copies, what copy("")
\* erases is the value the timer was started for, never a value copied later.
C26_ClearOnlyTheCopiedValue ==
    card_last.ev = "clear" => card_last.erased = card_last.expected

\* a pending timer, an `after` callback or a timer thread, is outstanding
TimersOutstanding ==
    lock_timers > 0 \/ refresh_timers # {} \/ clipboard_timers # {}
\* a step of a clipboard timer's callback
TimerCallbackRan == card_last.ev \in {"paste", "clear"}

\* C27: on every path that ends the process (the window closed, the PIN
\* prompt cancelled, the PIN attempts exhausted) every outstanding timer is
\* cancelled by the step that destroys the window, and no timer callback
\* runs while the window is destroyed.
C27_TimersCancelledBeforeExit ==
    /\ [][(window # "destroyed" /\ window' = "destroyed") => ~TimersOutstanding']_vars
    /\ [](TimerCallbackRan => card_last.window # "destroyed")

\* C28: when the token list is reloaded the timers of the cards torn down
\* are cancelled: no clipboard timer of a destroyed card stays pending while
\* the window lives, and no callback of a destroyed card runs.
C28_TeardownCancelsCardTimers ==
    /\ window # "destroyed" => \A t \in clipboard_timers : ~t.destroyed
    /\ TimerCallbackRan /\ card_last.window # "destroyed" => ~card_last.destroyed

-----------------------------------------------------------------------------
(* Claims about the format checks of restore (ui/settings_frame.py) *)

RequiredFields == {K_version, K_salt, K_nonce, K_ciphertext}
MalformedEnvelope(file) ==
    \/ ~IsJson(file)
    \/ ~IsDict(json_loads(file))
    \/ \E key \in RequiredFields : ~DictHas(json_loads(file), key)

WellFormedEntry(token_data) ==
    /\ Truthy(DictGet(token_data, K_account_name, None))
    /\ Truthy(DictGet(token_data, K_issuer_name, None))
    /\ Truthy(DictGet(token_data, K_secret_key, None))

\* C30: a decrypted list with an entry that lacks a non-empty account_name,
\* issuer_name or secret_key is rejected as a whole: whatever the user
\* answers, the restore ends with the format error and saves no entry of
\* the list (stated for the restores in which every question asked was
\* answered with yes).
C30_MalformedPayloadRejected ==
    (/\ last.op = "restore"
     /\ last.confirm
     /\ \E i \in 1..Len(last.tokens) : ~WellFormedEntry(last.tokens[i]))
        => last.outcome = "NotTokenList" /\ last.restored_count = 0

-----------------------------------------------------------------------------
\* C31: every vault operation started from the UI (add, edit, delete, backup,
\* restore, change PIN, change of the auto-lock setting, switch to the token
\* or settings view) is executed only while the session is unlocked: no step
\* of such a handler is taken with app_unlocked false.
C31_OperationsOnlyWhileUnlocked ==
    [][~(app_unlocked /\ app_unlocked') => ~UiOperation]_vars

\* an operation executed after the session was locked and unlocked again
C31_Witness ==
    /\ ~is_startup_check
    /\ app_unlocked
    /\ session_last.ev = "show_frame"
    /\ session_last.switched
    /\ last.op = "save_new"
    /\ last.raised = ""

-----------------------------------------------------------------------------
\* C32: the auto-lock setting reads as 300 seconds when nothing is stored and
\* as the last saved value otherwise, and it is independent of token data: no
\* token save or delete changes what get_auto_lock_setting returns, and
\* saving the setting changes no record of an indexed token and not the index.
TokenRecords(st) ==
    [identifier \in {k \in DOMAIN st : Contains(get_all_token_identifiers(st), k)} |->
        st[identifier]]

C32_SettingIndependentOfTokens ==
    /\ AUTO_LOCK_SETTING_KEY \notin DOMAIN store
           => get_auto_lock_setting(store) = DEFAULT_AUTO_LOCK_SECONDS
    /\ [][IF last'.op = "save_setting"
          THEN /\ get_auto_lock_setting(store') = last'.timeout_seconds
               /\ TokenRecords(store') = TokenRecords(store)
               /\ get_all_token_identifiers(store') = get_all_token_identifiers(store)
          ELSE get_auto_lock_setting(store') = get_auto_lock_setting(store)]_vars

-----------------------------------------------------------------------------
\* C33: after a successful unlock, a storage failure inside one vault
\* operation (save, delete, list, restore) makes only that operation fail:
\* after the handler the session is still unlocked, the process runs and the
\* main window is shown, so that the next operation can be attempted.
SessionGoesOn ==
    /\ app_unlocked'
    /\ pc' = "running"
    /\ window' = "shown"
    /\ lock_store' = lock_store

C33_StorageFailureKeepsSession ==
    [][~SessionGoesOn => ~StorageFailure]_vars

\* a save whose write failed, a delete whose index update raised, and a
\* restore in which every save failed, each with the session going on
C33_Witness ==
    /\ pc = "running"
    /\ app_unlocked
    /\ \/ /\ last.op = "save_new"
          /\ last.raised = "KeyringError"
       \/ /\ last.op = "restore"
          /\ last.failed_count > 0
          /\ last.restored_count = 0

-----------------------------------------------------------------------------
\* C34: reserved keys are never used as record identifiers: a save without
\* identifier neither returns __accounts_list__ or
\* __auto_lock_timeout_seconds__ nor writes a record blob under one of them.
ReservedKeys == {ACCOUNTS_LIST_KEY, AUTO_LOCK_SETTING_KEY}
RecordBlobAt(st, k) == k \in DOMAIN st /\ IsJson(st[k]) /\ IsDict(json_loads(st[k]))

C34_ReservedKeysNeverRecords ==
    [][last'.op = "save_new" =>
          /\ last'.result \notin ReservedKeys
          /\ \A k \in ReservedKeys : RecordBlobAt(store', k) => RecordBlobAt(store, k)]_vars

-----------------------------------------------------------------------------
\* C35: startup cannot bypass an existing PIN: while a PIN credential is
\* stored, the session becomes unlocked at startup only by a verify_app_pin
\* that returned true, and the first-run dialog that sets a new PIN is never
\* open, also when reading the credential fails with a storage error.
C35_StartupCannotBypassPin ==
    [][/\ pc' = "set_pin_dialog" => ~is_pin_set(lock_store')
       /\ (is_startup_check /\ ~app_unlocked /\ app_unlocked' /\ is_pin_set(lock_store))
             => (pin_last'.op = "verify" /\ pin_last'.result)]_vars

-----------------------------------------------------------------------------
\* C36: a save without identifier never overwrites a blob that is already
\* stored: whatever is stored under a record key before the save, parsable or
\* not, is stored under it unchanged afterwards.
C36_SaveNeverOverwrites ==
    [][last'.op = "save_new" =>
          \A k \in RecordKeys(store) : k \in DOMAIN store' /\ store'[k] = store[k]]_vars

-----------------------------------------------------------------------------
\* C37: changing the PIN while one is set requires the current PIN: the
\* stored credential is replaced only in a change flow in which verify_app_pin
\* accepted the current PIN; a wrong current PIN, or a cancel at either
\* prompt, leaves the credential unchanged, so that the old PIN still verifies.
ChangeRefused(current_pin, new_pin) ==
    \/ ~Truthy(current_pin)
    \/ ~verify_app_pin(lock_store, current_pin)
    \/ ~Truthy(new_pin)

-----------------------------------------------------------------------------
\* C38: editing a token through the edit flow leaves the stored type of the
\* record as it was: after a successful edit the record under the edited
\* identifier has the type it had before, an HOTP record stays HOTP.
C38_EditKeepsType ==
    [][(last'.op = "save_as" /\ last'.raised = "") =>
          get_token_secret(store', last'.identifier).type
              = get_token_secret(store, last'.identifier).type]_vars

-----------------------------------------------------------------------------
\* C39: every run of the unlock protocol starts with the attempt counter at 0
\* and the counter never exceeds 3: a run that follows an unlock which used
\* failed attempts starts at 0 again, and a run ends with the exit of the
\* application only when three PINs were rejected in that run.
C39_AttemptsStartAtZero ==
    [][/\ pin_attempts \in 0..MAX_PIN_ATTEMPTS
       /\ pin_attempts' \in 0..MAX_PIN_ATTEMPTS
       /\ (pc # "pin_dialog" /\ pc' = "pin_dialog") => pin_attempts' = 0
       /\ (session_last'.ev = "pin_bad" /\ pc' # "pin_dialog") =>
              /\ verifications' = MAX_PIN_ATTEMPTS
              /\ pin_attempts' = MAX_PIN_ATTEMPTS]_vars

\* the application is locked after an unlock that took two failed attempts
C39_Witness ==
    /\ pc = "pin_dialog"
    /\ session_last.ev \in {"lock_button", "timeout"}
    /\ session_last.attempts_before = 2
    /\ pin_attempts = 0

-----------------------------------------------------------------------------
\* C40: at most one inactivity timer is pending at any time: a step that
\* schedules the timer (activity event, setting change, successful unlock,
\* startup) cancels the pending one first, so the number of pending lock
\* callbacks rises only from 0 to 1; the expiry of the timer is a lock
\* transition that leaves no callback pending, so one idle period gives one
\* lock transition.
SchedulingEvents == {"activity", "auto_lock_change", "pin_ok", "show_app_window"}

C40_SingleInactivityTimer ==
    [][/\ lock_timers <= 1
       /\ lock_timers' <= 1
       /\ lock_timers' > lock_timers =>
              /\ lock_timers = 0
              /\ session_last'.ev \in SchedulingEvents
       /\ session_last'.ev = "timeout" =>
              /\ lock_timers = 1
              /\ lock_timers' = 0
              /\ inactivity_timer_id' = "None"
              /\ ~app_unlocked'
              /\ pc' = "pin_dialog"]_vars

\* the timeout was changed from one positive value to another while a
\* countdown was pending, and one countdown is pending afterwards
C40_Witness ==
    /\ session_last.ev = "auto_lock_change"
    /\ session_last.timeout_before = 60
    /\ session_last.pending_before = 1
    /\ auto_lock_after_seconds = 300
    /\ app_unlocked
    /\ inactivity_timer_id = "after"
    /\ lock_timers = 1

=============================================================================
